---- MODULE Spec2Model ----
(***************************************************************************)
(* A model of ec2/spark_ec2.py: the zone partitioner, the remote-shell     *)
(* retry loop, the cluster locator, the security-group handling and the    *)
(* spot acquisition protocol of launch_cluster, and the group teardown of  *)
(* the destroy action.                                                     *)
(***************************************************************************)
EXTENDS Integers, Sequences, FiniteSets, TLC

\* ---- bounds of the model ------------------------------------------------
MaxTotal == 7
MaxZones == 4
\* instances the provider already lists when the locator is called
MaxListed == 2
\* calls and deletions in a run of get_or_make_group calls
MaxGroupCalls == 3
\* a launch: the requested workers, the zones, the instances already listed,
\* and the polls of the spot requests before the model stops polling
MaxWorkers == 3
MaxLaunchZones == 2
MaxLaunchListed == 1
MaxPolls == 3
\* a destroy: the instances the provider lists
MaxDestroyListed == 1
\* two launches at once: the subordinates each asks for
MaxRaceWorkers == 1
\* a call of wait_for_cluster_state: the instances waited for, and the failed
\* rounds the model counts
MaxWaitListed == 2
MaxWaitRounds == 2
\* a run of real_main: the instances the provider lists, the subordinates a
\* launch asks for, and the rounds of wait_for_cluster_state that fail
MaxRunListed == 2
MaxRunWorkers == 1
MaxRounds == 2

\* ---- program constants --------------------------------------------------
\* ssh() raises once `tries > 5` at a failed attempt
SshMaxTries == 5
\* the destroy action gives up deleting the groups after this many attempts
TeardownAttempts == 3
\* ssh_write() raises once `tries > 5` at a failed attempt
SshWriteMaxTries == 5
\* exit status of the ssh client for a connection/authentication failure
SshAuthStatus == 255

VARIABLES
    \* get_partition and the zone loop that calls it
    total, num_partitions, current_partitions, counts,
    \* ssh(): the retry counter, the exit statuses of the attempts made so far,
    \* how the call ended and the exit code the raised error carries
    tries, statuses, ssh_result, raised_code,
    \* ssh_write(): the input to send and what each attempt wrote to the
    \* command's standard input
    arguments, written,
    \* the provider: instance id -> [state, groups, spot]; the security groups
    \* that exist, name -> [id, rules]; the id the next created group gets
    instances, security_groups, next_group_id,
    \* the provider's spot requests: request id -> [state, instance_id]
    spot_requests,
    \* the provider calls made so far, in order
    calls,
    \* the running invocation: its position, the locator's arguments and result,
    \* and the exit status of the process (-1 while it runs)
    pc, die_on_error, main_nodes, subordinate_nodes, exit_code,
    \* launch_cluster: the options, the two group objects it looked up, the
    \* locator's result, the zone index, the spot request ids it submitted, the
    \* number of polls made and the active count each poll saw, and whether the
    \* warning about running instances was printed
    opts, main_group, subordinate_group, existing_mains, existing_subordinates,
    zone_i, my_req_ids, polls, observed, warned,
    \* destroy: the answer to the confirmation prompt, the attempt number and
    \* success flag of the group deletion, the groups listed in the current
    \* attempt, and the revoke and delete calls of it that are still to make
    response, attempt, success, groups, work,
    \* real_main: the action keyword; the instances whose remote shell answers;
    \* the poll rounds wait_for_cluster_state made and the instances its last
    \* round found in the awaited condition; whether the failure of the group
    \* deletion was printed
    action, ssh_up, rounds, seen, reported,
    \* wait_for_cluster_state as a call of its own: the state awaited, the
    \* instance objects as last refreshed by i.update(), the seconds slept
    \* before each round, and the instances probed in the last round, in order
    wanted_state, view, sleeps, probes,
    \* two launch invocations for one cluster name: for each, its position
    \* and the locals of its launch_cluster
    procs

partVars == <<total, num_partitions, current_partitions, counts>>
sshVars == <<tries, statuses, ssh_result, raised_code, arguments, written>>
cloudVars == <<instances, security_groups, next_group_id, spot_requests, calls>>
progVars == <<pc, die_on_error, main_nodes, subordinate_nodes, exit_code>>
launchVars == <<opts, main_group, subordinate_group, existing_mains, existing_subordinates,
                zone_i, my_req_ids, polls, observed, warned>>
destroyVars == <<response, attempt, success, groups, work>>
runVars == <<action, ssh_up, rounds, seen, reported>>
waitVars == <<wanted_state, view, sleeps, probes>>
raceVars == <<procs>>
vars == <<partVars, sshVars, cloudVars, progVars, launchVars, destroyVars, runVars, waitVars,
          raceVars>>

\* ---- helpers ------------------------------------------------------------
RECURSIVE SeqSum(_)
SeqSum(s) == IF s = <<>> THEN 0 ELSE Head(s) + SeqSum(Tail(s))

SeqMax(s) == CHOOSE x \in {s[k] : k \in DOMAIN s} : \A y \in {s[k] : k \in DOMAIN s} : y <= x

SeqMin(s) == CHOOSE x \in {s[k] : k \in DOMAIN s} : \A y \in {s[k] : k \in DOMAIN s} : x <= y

\* ---- get_partition ------------------------------------------------------
get_partition_off_by_one(t, n, i) ==
    (t \div n) + (IF (t % n) - i >= 0 THEN 1 ELSE 0)

get_partition(t, n, i) ==
    (t \div n) + (IF (t % n) - i > 0 THEN 1 ELSE 0)

PartIdle ==
    /\ total = 0
    /\ num_partitions = 1
    /\ current_partitions = 0
    /\ counts = <<>>

PartInit ==
    /\ total \in 0..MaxTotal
    /\ num_partitions \in 1..MaxZones
    /\ current_partitions = 0
    /\ counts = <<>>

\* one iteration of `for zone in zones: get_partition(total, num_zones, i); i += 1`
PartitionCall ==
    /\ current_partitions < num_partitions
    /\ counts' = Append(counts, get_partition(total, num_partitions, current_partitions))
    /\ current_partitions' = current_partitions + 1
    /\ UNCHANGED <<total, num_partitions>>

\* ---- ssh ----------------------------------------------------------------
ExitStatuses == {0, 1, 2, SshAuthStatus}

SshErrorAlwaysCommand(status) == "CalledProcessError"

\* the error ssh() raises for the exit status of the attempt that just failed
SshError(status) ==
    IF status = SshAuthStatus THEN "UsageError" ELSE "CalledProcessError"

SshIdle ==
    /\ tries = 0
    /\ statuses = <<>>
    /\ ssh_result = "running"
    /\ raised_code = 0
    /\ arguments = ""
    /\ written = <<>>

SshInit == SshIdle

\* subprocess.check_call returned: exit status 0
SshSucceed ==
    /\ ssh_result = "running"
    /\ statuses' = Append(statuses, 0)
    /\ ssh_result' = "returned"
    /\ UNCHANGED <<tries, raised_code, arguments, written>>

\* CalledProcessError with retries left: sleep 30 s, tries = tries + 1
SshRetry ==
    /\ ssh_result = "running"
    /\ ~(tries > SshMaxTries)
    /\ \E status \in ExitStatuses \ {0} :
        statuses' = Append(statuses, status)
    /\ tries' = tries + 1
    /\ UNCHANGED <<ssh_result, raised_code, arguments, written>>

\* CalledProcessError with tries > 5: UsageError for 255, else re-raise e
SshRaise ==
    /\ ssh_result = "running"
    /\ tries > SshMaxTries
    /\ \E status \in ExitStatuses \ {0} :
        /\ statuses' = Append(statuses, status)
        /\ ssh_result' = SshError(status)
        /\ raised_code' = status
    /\ UNCHANGED <<tries, arguments, written>>

\* ---- ssh_write ----------------------------------------------------------
\* what setup_cluster sends: the tar of the main's ~/.ssh (line 539)
WriteInputs == {"dot_ssh_tar", "other_tar"}

\* line 855: tries = 0
SshWriteInit ==
    /\ tries = 0
    /\ statuses = <<>>
    /\ ssh_result = "running"
    /\ raised_code = 0
    /\ arguments \in WriteInputs
    /\ written = <<>>

\* lines 857-863: the attempt writes the input and exits with status 0
SshWriteSucceed ==
    /\ ssh_result = "running"
    /\ written' = Append(written, arguments)
    /\ statuses' = Append(statuses, 0)
    /\ ssh_result' = "returned"
    /\ UNCHANGED <<tries, raised_code, arguments>>

\* lines 857-871: a non-zero status with `tries > 5` false: sleep 30 s,
\* tries = tries + 1
SshWriteRetry ==
    /\ ssh_result = "running"
    /\ ~(tries > SshWriteMaxTries)
    /\ written' = Append(written, arguments)
    /\ \E status \in ExitStatuses \ {0} :
        statuses' = Append(statuses, status)
    /\ tries' = tries + 1
    /\ UNCHANGED <<ssh_result, raised_code, arguments>>

\* lines 857-866: a non-zero status with tries > 5: RuntimeError
SshWriteRaise ==
    /\ ssh_result = "running"
    /\ tries > SshWriteMaxTries
    /\ written' = Append(written, arguments)
    /\ \E status \in ExitStatuses \ {0} :
        /\ statuses' = Append(statuses, status)
        /\ raised_code' = status
    /\ ssh_result' = "RuntimeError"
    /\ UNCHANGED <<tries, arguments>>

\* ---- the provider's instances ---------------------------------------------
InstanceStates == {"pending", "running", "stopping", "stopped", "shutting-down", "terminated"}

\* cluster_name + "-main", cluster_name + "-subordinates"
GroupNames == {"main", "subordinates"}

\* the names an instance's groups can have: the cluster's two and a foreign one
AnyGroupNames == GroupNames \cup {"other"}

is_active_any_state(inst) == inst.state \in InstanceStates

is_active(inst) == inst.state \in {"pending", "running", "stopping", "stopped"}

\* a locator that gives a role only to an instance in exactly one of the groups
get_existing_cluster_exactly_one(insts) ==
    [main_nodes |->
        {id \in DOMAIN insts :
            /\ is_active(insts[id])
            /\ "main" \in insts[id].groups
            /\ "subordinates" \notin insts[id].groups},
     subordinate_nodes |->
        {id \in DOMAIN insts :
            /\ is_active(insts[id])
            /\ "main" \notin insts[id].groups
            /\ "subordinates" \in insts[id].groups}]

\* get_existing_cluster: the instances appended to main_nodes and, in the
\* elif, to subordinate_nodes
get_existing_cluster(insts) ==
    [main_nodes |->
        {id \in DOMAIN insts : is_active(insts[id]) /\ "main" \in insts[id].groups},
     subordinate_nodes |->
        {id \in DOMAIN insts :
            /\ is_active(insts[id])
            /\ "main" \notin insts[id].groups
            /\ "subordinates" \in insts[id].groups}]

\* ---- the provider's security groups ------------------------------------------
\* authorize(src_group=g): all traffic from group g
GroupRule(g) == [ip_protocol |-> "all", from_port |-> 0, to_port |-> 65535, src |-> g]

\* authorize('tcp', a, b, authorized_address)
TcpRule(a, b) == [ip_protocol |-> "tcp", from_port |-> a, to_port |-> b, src |-> "cidr"]

\* one provider call: what was called, on which group (name and id), in which
\* zone (index), with which instance count, which instance or request ids,
\* which rules
Call(op, group, id, zone, count, ids, rules) ==
    [op |-> op, group |-> group, id |-> id, zone |-> zone, count |-> count,
     ids |-> ids, rules |-> rules]

GroupCall(op, group, id, rules) == Call(op, group, id, 0, 0, {}, rules)

InstanceCall(op, group, zone, count, ids) == Call(op, group, 0, zone, count, ids, {})

\* launch_cluster lines 312-323, in the order of the authorize calls
main_default_rules(ganglia) ==
    <<GroupRule("main"), GroupRule("subordinates"), TcpRule(22, 22), TcpRule(8080, 8081),
      TcpRule(18080, 18080), TcpRule(19999, 19999), TcpRule(50030, 50030),
      TcpRule(50070, 50070), TcpRule(60070, 60070), TcpRule(4040, 4045)>>
    \o (IF ganglia THEN <<TcpRule(5080, 5080)>> ELSE <<>>)

\* launch_cluster lines 325-332
subordinate_default_rules ==
    <<GroupRule("main"), GroupRule("subordinates"), TcpRule(22, 22), TcpRule(8080, 8081),
      TcpRule(50060, 50060), TcpRule(50075, 50075), TcpRule(60060, 60060),
      TcpRule(60075, 60075)>>

Range(s) == {s[k] : k \in DOMAIN s}

\* a rule set some earlier operator action left on a group
CustomRules == {TcpRule(443, 443)}

\* the rule sets a group that exists before the invocation can have
ExistingRuleSets(name) ==
    {{}, CustomRules,
     IF name = "main" THEN Range(main_default_rules(FALSE)) ELSE Range(subordinate_default_rules)}

\* the provider's groups before the invocation: each of the cluster's two is
\* absent or present with one of the rule sets; ids are in creation order
GroupsBefore ==
    {sg \in UNION {[names -> [id : 1..2, rules : UNION {ExistingRuleSets(n) : n \in GroupNames}]] :
                        names \in SUBSET GroupNames} :
        /\ \A n \in DOMAIN sg : sg[n].rules \in ExistingRuleSets(n)
        /\ "main" \in DOMAIN sg => sg["main"].id = 1
        /\ "subordinates" \in DOMAIN sg => sg["subordinates"].id = Cardinality(DOMAIN sg)}

\* get_or_make_group that hands out a group object without creating the group
get_or_make_group_never_create(sgs, next_id, name) ==
    IF name \in DOMAIN sgs
    THEN [groups |-> sgs,
          group |-> [name |-> name, id |-> sgs[name].id, rules |-> sgs[name].rules],
          created |-> FALSE]
    ELSE [groups |-> sgs,
          group |-> [name |-> name, id |-> next_id, rules |-> {}],
          created |-> FALSE]

\* get_or_make_group with create-or-replace instead of check-then-create
get_or_make_group_always_create(sgs, next_id, name) ==
    [groups |-> [n \in DOMAIN sgs \cup {name} |->
                    IF n = name THEN [id |-> next_id, rules |-> {}] ELSE sgs[n]],
     group |-> [name |-> name, id |-> next_id, rules |-> {}],
     created |-> TRUE]

\* get_or_make_group: the provider's groups after the call, the group object
\* returned, and whether create_security_group was called
get_or_make_group(sgs, next_id, name) ==
    IF name \in DOMAIN sgs
    THEN [groups |-> sgs,
          group |-> [name |-> name, id |-> sgs[name].id, rules |-> sgs[name].rules],
          created |-> FALSE]
    ELSE [groups |-> [n \in DOMAIN sgs \cup {name} |->
                        IF n = name THEN [id |-> next_id, rules |-> {}] ELSE sgs[n]],
          group |-> [name |-> name, id |-> next_id, rules |-> {}],
          created |-> TRUE]

CloudIdle ==
    /\ instances = <<>>
    /\ security_groups = <<>>
    /\ next_group_id = 1
    /\ spot_requests = <<>>
    /\ calls = <<>>

\* the provider keeps a group as long as an instance that is not terminated is
\* in it: the cluster's groups of such instances exist
GroupsOfInstancesExist(insts, sgs) ==
    \A id \in DOMAIN insts :
        insts[id].state # "terminated" => (insts[id].groups \cap GroupNames) \subseteq DOMAIN sgs

\* ---- get_or_make_group as a call of its own ---------------------------------
GroupInit ==
    /\ security_groups \in GroupsBefore
    /\ next_group_id = Cardinality(DOMAIN security_groups) + 1
    /\ instances = <<>>
    /\ spot_requests = <<>>
    /\ calls = <<>>

\* a call get_or_make_group(conn, name); the call log keeps what it returned
EnsureGroup(name) ==
    LET r == get_or_make_group(security_groups, next_group_id, name) IN
    /\ Len(calls) < MaxGroupCalls
    /\ security_groups' = r.groups
    /\ next_group_id' = IF r.created THEN next_group_id + 1 ELSE next_group_id
    /\ calls' = Append(calls, GroupCall(IF r.created THEN "create_security_group"
                                                     ELSE "get_security_group",
                                        name, r.group.id, r.group.rules))
    /\ UNCHANGED <<instances, spot_requests>>

\* conn.delete_security_group(name) of a destroy between two launches
DeleteGroup(name) ==
    /\ Len(calls) < MaxGroupCalls
    /\ name \in DOMAIN security_groups
    /\ security_groups' = [n \in DOMAIN security_groups \ {name} |-> security_groups[n]]
    /\ calls' = Append(calls, GroupCall("delete_security_group", name, security_groups[name].id, {}))
    /\ UNCHANGED <<instances, next_group_id, spot_requests>>

ProgIdle ==
    /\ pc = "idle"
    /\ die_on_error = FALSE
    /\ main_nodes = {}
    /\ subordinate_nodes = {}
    /\ exit_code = -1

NoGroup == [name |-> "", id |-> 0, rules |-> {}]

LaunchIdle ==
    /\ opts = [subordinates |-> 1, num_zones |-> 1, spot |-> FALSE,
               use_existing_main |-> FALSE, ganglia |-> FALSE, delete_groups |-> FALSE]
    /\ main_group = NoGroup
    /\ subordinate_group = NoGroup
    /\ existing_mains = {}
    /\ existing_subordinates = {}
    /\ zone_i = 0
    /\ my_req_ids = {}
    /\ polls = 0
    /\ observed = <<>>
    /\ warned = FALSE

DestroyIdle ==
    /\ response = ""
    /\ attempt = 0
    /\ success = TRUE
    /\ groups = <<>>
    /\ work = <<>>

\* no wait_for_cluster_state has run and nothing was printed
RunIdle ==
    /\ ssh_up = {}
    /\ rounds = 0
    /\ seen = {}
    /\ reported = FALSE

\* no second invocation runs
RaceIdle == procs = <<>>

\* wait_for_cluster_state is not being called on its own
WaitIdle ==
    /\ wanted_state = ""
    /\ view = <<>>
    /\ sleeps = <<>>
    /\ probes = <<>>

\* ---- get_existing_cluster as a call of its own ------------------------------
LocateInit ==
    /\ \E n \in 0..MaxListed :
        instances \in [1..n -> [state : InstanceStates,
                                groups : SUBSET AnyGroupNames,
                                spot : {FALSE}]]
    /\ security_groups = <<>>
    /\ next_group_id = 1
    /\ spot_requests = <<>>
    /\ calls = <<>>
    /\ pc = "locate"
    /\ die_on_error \in BOOLEAN
    /\ main_nodes = {}
    /\ subordinate_nodes = {}
    /\ exit_code = -1

\* a locator that is content with any instance of the cluster
locator_returns_any_node(mains, subordinates, die) ==
    mains # {} \/ subordinates # {} \/ ~die

\* line 515: if main_nodes != [] or not die_on_error
locator_returns(mains, subordinates, die) == mains # {} \/ ~die

\* lines 513-516: a main was found, or the caller tolerates an empty result
LocateReturn ==
    /\ pc = "locate"
    /\ locator_returns(get_existing_cluster(instances).main_nodes,
                       get_existing_cluster(instances).subordinate_nodes, die_on_error)
    /\ main_nodes' = get_existing_cluster(instances).main_nodes
    /\ subordinate_nodes' = get_existing_cluster(instances).subordinate_nodes
    /\ pc' = "located"
    /\ UNCHANGED <<die_on_error, exit_code, cloudVars>>

\* lines 517-522: no main and die_on_error: sys.exit(1)
LocateDie ==
    /\ pc = "locate"
    /\ ~locator_returns(get_existing_cluster(instances).main_nodes,
                        get_existing_cluster(instances).subordinate_nodes, die_on_error)
    /\ pc' = "exit"
    /\ exit_code' = 1
    /\ UNCHANGED <<die_on_error, main_nodes, subordinate_nodes, cloudVars>>

\* ---- launch_cluster --------------------------------------------------------
RECURSIVE SeqOfSet(_)
\* the instances of a set in listing order (ascending id)
SeqOfSet(S) ==
    IF S = {} THEN <<>>
    ELSE LET x == CHOOSE y \in S : \A z \in S : y <= z IN <<x>> \o SeqOfSet(S \ {x})

\* the id after the highest one the provider has given out
NextId(insts) ==
    IF DOMAIN insts = {} THEN 1
    ELSE 1 + CHOOSE x \in DOMAIN insts : \A y \in DOMAIN insts : y <= x

\* the provider's instances after it started the instances `ids` in a group, for
\* a run request or a granted spot request
AddInstances(insts, ids, group, spot) ==
    [id \in DOMAIN insts \cup ids |->
        IF id \in DOMAIN insts THEN insts[id]
        ELSE [state |-> "pending", groups |-> {group}, spot |-> spot]]

\* the provider's groups after the authorize calls for `rules` on group `name`
authorize_all(sgs, name, rules) ==
    [sgs EXCEPT ![name].rules = @ \cup Range(rules)]

AuthorizeCalls(group, rules) ==
    [k \in DOMAIN rules |-> GroupCall("authorize", group.name, group.id, {rules[k]})]

needs_default_rules_always(group) == TRUE

\* `if main_group.rules == []:  # Group was just now created`
needs_default_rules(group) == group.rules = {}

cluster_occupied_ignoring_subordinates(mains, subordinates, use_existing_main) ==
    mains # {} /\ ~use_existing_main

\* `if existing_subordinates or (existing_mains and not opts.use_existing_main)`
cluster_occupied(mains, subordinates, use_existing_main) ==
    subordinates # {} \/ (mains # {} /\ ~use_existing_main)

spot_any_granted(active_count, wanted) == active_count > 0

\* `if len(active_instance_ids) == opts.subordinates`
spot_all_granted(active_count, wanted) == active_count = wanted

\* the requests of `req_ids` the provider lists as active
active_requests(reqs, req_ids) ==
    {r \in req_ids : r \in DOMAIN reqs /\ reqs[r].state = "active"}

cancelled_request_ids_open_only(reqs, req_ids) ==
    {r \in req_ids : reqs[r].state = "open"}

\* `conn.cancel_spot_instance_requests(my_req_ids)`
cancelled_request_ids(reqs, req_ids) == req_ids

\* The inputs of a launch. On-demand launches start from every combination of
\* options and groups, with listed instances of the cluster that are running,
\* stopped or terminated; spot launches, whose polling has many interleavings
\* with the provider, from the groups absent or set up by an earlier launch and
\* from running instances of the cluster.
LaunchInit ==
    /\ \/ /\ opts \in [subordinates : 1..MaxWorkers, num_zones : 1..MaxLaunchZones,
                        spot : {FALSE}, use_existing_main : BOOLEAN, ganglia : BOOLEAN,
                        delete_groups : {FALSE}]
          /\ security_groups \in GroupsBefore
          /\ \E n \in 0..MaxLaunchListed :
                instances \in [1..n -> [state : {"running", "stopped", "terminated"},
                                        groups : {{"main"}, {"subordinates"}},
                                        spot : {FALSE}]]
       \/ /\ opts \in [subordinates : 1..MaxWorkers, num_zones : 1..MaxLaunchZones,
                        spot : {TRUE}, use_existing_main : BOOLEAN, ganglia : {FALSE},
                        delete_groups : {FALSE}]
          /\ security_groups \in {sg \in GroupsBefore :
                                    /\ DOMAIN sg \in {{}, GroupNames}
                                    /\ \A n \in DOMAIN sg : Cardinality(sg[n].rules) > 1}
          /\ \E n \in 0..MaxLaunchListed :
                instances \in [1..n -> [state : {"running"},
                                        groups : {{"main"}, {"subordinates"}},
                                        spot : {FALSE}]]
    /\ GroupsOfInstancesExist(instances, security_groups)
    /\ next_group_id = Cardinality(DOMAIN security_groups) + 1
    /\ spot_requests = <<>>
    /\ calls = <<>>
    /\ pc = "launch"
    /\ die_on_error = FALSE
    /\ main_nodes = {}
    /\ subordinate_nodes = {}
    /\ exit_code = -1
    /\ main_group = NoGroup
    /\ subordinate_group = NoGroup
    /\ existing_mains = {}
    /\ existing_subordinates = {}
    /\ zone_i = 0
    /\ my_req_ids = {}
    /\ polls = 0
    /\ observed = <<>>
    /\ warned = FALSE

\* line 308: main_group = get_or_make_group(conn, cluster_name + "-main")
LaunchMainGroup ==
    LET r == get_or_make_group(security_groups, next_group_id, "main") IN
    /\ pc = "launch"
    /\ main_group' = r.group
    /\ security_groups' = r.groups
    /\ next_group_id' = IF r.created THEN next_group_id + 1 ELSE next_group_id
    /\ calls' = Append(calls, GroupCall(IF r.created THEN "create_security_group"
                                                     ELSE "get_security_group",
                                        "main", r.group.id, r.group.rules))
    /\ pc' = "subordinate_group"
    /\ UNCHANGED <<instances, spot_requests, die_on_error, main_nodes, subordinate_nodes,
                   exit_code, opts, subordinate_group, existing_mains,
                   existing_subordinates, zone_i, my_req_ids, polls, observed, warned>>

\* line 309: subordinate_group = get_or_make_group(conn, cluster_name + "-subordinates")
LaunchSubordinateGroup ==
    LET r == get_or_make_group(security_groups, next_group_id, "subordinates") IN
    /\ pc = "subordinate_group"
    /\ subordinate_group' = r.group
    /\ security_groups' = r.groups
    /\ next_group_id' = IF r.created THEN next_group_id + 1 ELSE next_group_id
    /\ calls' = Append(calls, GroupCall(IF r.created THEN "create_security_group"
                                                     ELSE "get_security_group",
                                        "subordinates", r.group.id, r.group.rules))
    /\ pc' = "main_rules"
    /\ UNCHANGED <<instances, spot_requests, die_on_error, main_nodes, subordinate_nodes,
                   exit_code, opts, main_group, existing_mains,
                   existing_subordinates, zone_i, my_req_ids, polls, observed, warned>>

\* lines 311-323: the default rules of the main group
LaunchMainRules ==
    /\ pc = "main_rules"
    /\ IF needs_default_rules(main_group)
       THEN /\ security_groups' =
                authorize_all(security_groups, "main", main_default_rules(opts.ganglia))
            /\ calls' = calls \o AuthorizeCalls(main_group, main_default_rules(opts.ganglia))
       ELSE UNCHANGED <<security_groups, calls>>
    /\ pc' = "subordinate_rules"
    /\ UNCHANGED <<instances, next_group_id, spot_requests, die_on_error, main_nodes,
                   subordinate_nodes, exit_code, launchVars>>

\* lines 324-332: the default rules of the subordinates group
LaunchSubordinateRules ==
    /\ pc = "subordinate_rules"
    /\ IF needs_default_rules(subordinate_group)
       THEN /\ security_groups' =
                authorize_all(security_groups, "subordinates", subordinate_default_rules)
            /\ calls' = calls \o AuthorizeCalls(subordinate_group, subordinate_default_rules)
       ELSE UNCHANGED <<security_groups, calls>>
    /\ pc' = "check_existing"
    /\ UNCHANGED <<instances, next_group_id, spot_requests, die_on_error, main_nodes,
                   subordinate_nodes, exit_code, launchVars>>

\* lines 335-340: the locator and the refusal to launch into an occupied cluster
LaunchCheckExisting ==
    LET r == get_existing_cluster(instances) IN
    /\ pc = "check_existing"
    /\ existing_mains' = r.main_nodes
    /\ existing_subordinates' = r.subordinate_nodes
    /\ calls' = Append(calls, InstanceCall("get_all_instances", "", 0, 0, {}))
    /\ IF cluster_occupied(r.main_nodes, r.subordinate_nodes, opts.use_existing_main)
       THEN pc' = "exit" /\ exit_code' = 1
       ELSE /\ pc' = IF opts.spot THEN "spot_request" ELSE "run_subordinates"
            /\ UNCHANGED exit_code
    /\ UNCHANGED <<instances, security_groups, next_group_id, spot_requests, die_on_error,
                   main_nodes, subordinate_nodes, opts, main_group, subordinate_group,
                   zone_i, my_req_ids, polls, observed, warned>>

\* lines 388-402: one iteration of the loop that submits a spot request per
\* zone. The loop is before the try of line 404: if the provider answers the
\* call with an error, the exception leaves launch_cluster uncaught.
SpotRequest ==
    LET n == get_partition(opts.subordinates, opts.num_zones, zone_i)
        new == (Len(spot_requests) + 1)..(Len(spot_requests) + n)
    IN
    /\ pc = "spot_request"
    /\ \E submitted \in BOOLEAN :
         IF submitted
         THEN /\ spot_requests' = spot_requests
                                   \o [k \in 1..n |-> [state |-> "open", instance_id |-> 0]]
              /\ my_req_ids' = my_req_ids \cup new
              /\ calls' = Append(calls, InstanceCall("request_spot_instances", "subordinates",
                                                     zone_i, n, new))
              /\ zone_i' = zone_i + 1
              /\ pc' = IF zone_i + 1 = opts.num_zones THEN "spot_poll" ELSE "spot_request"
              /\ UNCHANGED exit_code
         ELSE /\ calls' = Append(calls, InstanceCall("request_spot_instances_error",
                                                     "subordinates", zone_i, n, {}))
              /\ pc' = "raised"
              /\ exit_code' = 1
              /\ UNCHANGED <<spot_requests, my_req_ids, zone_i>>
    /\ UNCHANGED <<instances, security_groups, next_group_id, die_on_error, main_nodes,
                   subordinate_nodes, opts, main_group, subordinate_group,
                   existing_mains, existing_subordinates, polls, observed, warned>>

\* the provider grants an open request: it becomes active and is bound to a new
\* instance in the subordinates group. Instance ids are opaque; the model
\* numbers the instance of request r after the instances listed before the
\* launch, by r.
SpotGrant(r) ==
    LET id == Cardinality({i \in DOMAIN instances : ~instances[i].spot}) + r IN
    /\ pc \in {"spot_request", "spot_poll", "spot_cancel"}
    /\ r \in DOMAIN spot_requests
    /\ spot_requests[r].state = "open"
    /\ instances' = AddInstances(instances, {id}, "subordinates", TRUE)
    /\ spot_requests' = [spot_requests EXCEPT
                            ![r] = [state |-> "active", instance_id |-> id]]
    /\ UNCHANGED <<security_groups, next_group_id, calls, progVars, launchVars>>

\* lines 406-425: one round of the polling loop
SpotPoll ==
    LET active == active_requests(spot_requests, my_req_ids)
        active_instance_ids == {spot_requests[r].instance_id : r \in active}
    IN
    /\ pc = "spot_poll"
    /\ polls < MaxPolls
    /\ polls' = polls + 1
    /\ observed' = Append(observed, Cardinality(active))
    /\ IF spot_all_granted(Cardinality(active), opts.subordinates)
       THEN /\ calls' = calls \o
                <<InstanceCall("get_all_spot_instance_requests", "", 0, 0, {}),
                  InstanceCall("get_all_instances", "", 0, 0, active_instance_ids)>>
            /\ subordinate_nodes' = active_instance_ids
            /\ pc' = "launch_mains"
       ELSE /\ calls' = Append(calls,
                               InstanceCall("get_all_spot_instance_requests", "", 0, 0, {}))
            /\ UNCHANGED <<subordinate_nodes, pc>>
    /\ UNCHANGED <<instances, security_groups, next_group_id, spot_requests, die_on_error,
                   main_nodes, exit_code, opts, main_group, subordinate_group,
                   existing_mains, existing_subordinates, zone_i, my_req_ids, warned>>

\* line 426: an exception inside the try block (a KeyboardInterrupt during the
\* sleep, an error of the provider call)
SpotInterrupt ==
    /\ pc = "spot_poll"
    /\ pc' = "spot_cancel"
    /\ UNCHANGED <<cloudVars, die_on_error, main_nodes, subordinate_nodes, exit_code,
                   launchVars>>

\* lines 427-428: cancel the requests
SpotCancel ==
    LET ids == cancelled_request_ids(spot_requests, my_req_ids) IN
    /\ pc = "spot_cancel"
    /\ calls' = Append(calls, InstanceCall("cancel_spot_instance_requests", "", 0, 0, ids))
    /\ spot_requests' = [r \in DOMAIN spot_requests |->
                            IF r \in ids
                            THEN [spot_requests[r] EXCEPT !.state = "cancelled"]
                            ELSE spot_requests[r]]
    /\ pc' = "spot_requery"
    /\ UNCHANGED <<instances, security_groups, next_group_id, die_on_error, main_nodes,
                   subordinate_nodes, exit_code, launchVars>>

\* lines 430-435: look for instances that started all the same, warn, sys.exit(0)
SpotRequery ==
    LET r == get_existing_cluster(instances)
        running == Cardinality(r.main_nodes) + Cardinality(r.subordinate_nodes)
    IN
    /\ pc = "spot_requery"
    /\ calls' = Append(calls, InstanceCall("get_all_instances", "", 0, 0, {}))
    /\ main_nodes' = r.main_nodes
    /\ subordinate_nodes' = r.subordinate_nodes
    /\ warned' = (running # 0)
    /\ exit_code' = 0
    /\ pc' = "exit"
    /\ UNCHANGED <<instances, security_groups, next_group_id, spot_requests, die_on_error,
                   opts, main_group, subordinate_group, existing_mains,
                   existing_subordinates, zone_i, my_req_ids, polls, observed>>

\* a loop that sends a run request for every zone
zone_gets_request_always(n) == TRUE

\* line 444: if num_subordinates_this_zone > 0
zone_gets_request(n) == n > 0

\* lines 442-456: one iteration of the loop that runs the on-demand instances
RunSubordinates ==
    LET n == get_partition(opts.subordinates, opts.num_zones, zone_i)
        new == NextId(instances)..(NextId(instances) + n - 1)
    IN
    /\ pc = "run_subordinates"
    /\ IF zone_gets_request(n)
       THEN /\ instances' = AddInstances(instances, new, "subordinates", FALSE)
            /\ calls' = Append(calls, InstanceCall("run_instances", "subordinates",
                                                   zone_i, n, new))
            /\ subordinate_nodes' = subordinate_nodes \cup new
       ELSE UNCHANGED <<instances, calls, subordinate_nodes>>
    /\ zone_i' = zone_i + 1
    /\ pc' = IF zone_i + 1 = opts.num_zones THEN "launch_mains" ELSE "run_subordinates"
    /\ UNCHANGED <<security_groups, next_group_id, spot_requests, die_on_error, main_nodes,
                   exit_code, opts, main_group, subordinate_group, existing_mains,
                   existing_subordinates, my_req_ids, polls, observed, warned>>

\* the state of an instance after inst.start()
started(inst) == IF inst.state = "stopped" THEN [inst EXCEPT !.state = "pending"] ELSE inst

\* a launch that goes on to name the instances whatever the provider answered
launch_continues_always(main_ok) == TRUE

\* lines 459-493: no handler surrounds inst.start() and image.run(): their
\* exception leaves launch_cluster, and the lines after them run only if the
\* call returned
launch_continues(main_ok) == main_ok

\* the call of lines 463 or 471 that the provider answered with an error
MainErrorCall(mains) ==
    IF mains # {} THEN InstanceCall("start_instances_error", "main", 0, 1, {SeqOfSet(mains)[1]})
                  ELSE InstanceCall("run_instances_error", "main", 0, 1, {})

\* lines 459-480: start the existing mains, or run one new main. The states
\* tested at line 462 are those the locator saw, all of them active. The
\* provider may answer the first of these calls with an error, which nothing
\* catches: the process ends with a traceback.
LaunchMains ==
    LET new == NextId(instances)
        order == SeqOfSet(existing_mains)
    IN
    /\ pc = "launch_mains"
    /\ \E main_ok \in BOOLEAN :
         /\ IF main_ok
            THEN IF existing_mains # {}
                 THEN /\ instances' = [id \in DOMAIN instances |->
                                          IF id \in existing_mains THEN started(instances[id])
                                                                     ELSE instances[id]]
                      /\ calls' = calls \o [k \in DOMAIN order |->
                                      InstanceCall("start_instances", "main", 0, 1, {order[k]})]
                      /\ main_nodes' = existing_mains
                 ELSE /\ instances' = AddInstances(instances, {new}, "main", FALSE)
                      /\ calls' = Append(calls, InstanceCall("run_instances", "main", 0, 1, {new}))
                      /\ main_nodes' = {new}
            ELSE /\ calls' = Append(calls, MainErrorCall(existing_mains))
                 /\ UNCHANGED <<instances, main_nodes>>
         /\ IF launch_continues(main_ok)
            THEN pc' = "tag" /\ UNCHANGED exit_code
            ELSE pc' = "raised" /\ exit_code' = 1
    /\ UNCHANGED <<security_groups, next_group_id, spot_requests, die_on_error,
                   subordinate_nodes, launchVars>>

\* lines 483-493: name the instances and return them
LaunchTag ==
    LET ms == SeqOfSet(main_nodes)
        ss == SeqOfSet(subordinate_nodes)
    IN
    /\ pc = "tag"
    /\ calls' = calls
                \o [k \in DOMAIN ms |-> InstanceCall("add_tag", "main", 0, 1, {ms[k]})]
                \o [k \in DOMAIN ss |-> InstanceCall("add_tag", "subordinates", 0, 1, {ss[k]})]
    /\ pc' = "launched"
    /\ UNCHANGED <<instances, security_groups, next_group_id, spot_requests, die_on_error,
                   main_nodes, subordinate_nodes, exit_code, launchVars>>

\* ---- the destroy action ----------------------------------------------------
RECURSIVE RulesInOrder(_)
\* the rules of a group in the order the provider lists them
RulesInOrder(S) ==
    IF S = {} THEN <<>>
    ELSE LET x == CHOOSE y \in S : TRUE IN <<x>> \o RulesInOrder(S \ {x})

\* the rule sets a group of a cluster to destroy can have: none, or some of
\* the rules a launch gave it: the one that names the other group, with or
\* without the one that names the group itself or one for an address range
TeardownRuleSets(name) ==
    LET other == CHOOSE g \in GroupNames : g # name IN
    {{}, {GroupRule(other)}, {GroupRule(name), GroupRule(other)},
     {GroupRule(other), TcpRule(22, 22)}}

\* the provider's groups before a destroy
TeardownGroupsBefore ==
    {sg \in UNION {[names -> [id : 1..2,
                              rules : UNION {TeardownRuleSets(n) : n \in GroupNames}]] :
                        names \in SUBSET GroupNames} :
        /\ \A n \in DOMAIN sg : sg[n].rules \in TeardownRuleSets(n)
        /\ "main" \in DOMAIN sg => sg["main"].id = 1
        /\ "subordinates" \in DOMAIN sg => sg["subordinates"].id = Cardinality(DOMAIN sg)}

\* the orders in which the provider can list the groups of a set of names
ListingOrders(names) ==
    {o \in UNION {[1..n -> names] : n \in {Cardinality(names)}} :
        \A a, b \in DOMAIN o : a # b => o[a] # o[b]}

\* the revoke calls of the loop of lines 968-975 for one listed group
RevokesOf(group) ==
    [k \in DOMAIN group.rules |->
        GroupCall("revoke", group.name, group.id, {group.rules[k]})]

RECURSIVE Flatten(_)
Flatten(ss) == IF ss = <<>> THEN <<>> ELSE Head(ss) \o Flatten(Tail(ss))

\* each group's rules revoked right before that group is deleted
teardown_work_group_by_group(listed) ==
    Flatten([k \in DOMAIN listed |->
                RevokesOf(listed[k])
                \o <<GroupCall("delete_security_group", listed[k].name, listed[k].id, {})>>])

\* lines 968-986: the calls of one attempt, in order: the revokes of every rule
\* of every listed group, then the deletion of every listed group
teardown_work(listed) ==
    Flatten([k \in DOMAIN listed |-> RevokesOf(listed[k])])
    \o [k \in DOMAIN listed |->
            GroupCall("delete_security_group", listed[k].name, listed[k].id, {})]

\* the provider refuses to delete a group that a rule of another group names
deletable(sgs, name) ==
    \A g \in DOMAIN sgs \ {name} : GroupRule(name) \notin sgs[g].rules

\* The inputs of a destroy. Without group deletion: every listing of instances;
\* with it: every rule structure of the groups, and at most one kind of
\* instance per listed instance.
DestroyInit ==
    /\ \/ /\ opts = [subordinates |-> 1, num_zones |-> 1, spot |-> FALSE,
                     use_existing_main |-> FALSE, ganglia |-> FALSE,
                     delete_groups |-> FALSE]
          /\ security_groups \in {sg \in TeardownGroupsBefore :
                                    \A n \in DOMAIN sg : Cardinality(sg[n].rules) = 2}
          /\ \E n \in 0..MaxDestroyListed :
                instances \in [1..n -> [state : InstanceStates,
                                        groups : {{"main"}, {"subordinates"}, {"other"}},
                                        spot : BOOLEAN]]
       \/ /\ opts = [subordinates |-> 1, num_zones |-> 1, spot |-> FALSE,
                     use_existing_main |-> FALSE, ganglia |-> FALSE,
                     delete_groups |-> TRUE]
          /\ security_groups \in TeardownGroupsBefore
          /\ \E n \in 0..MaxDestroyListed :
                instances \in [1..n -> [state : {"running"},
                                        groups : {{"main"}, {"subordinates"}},
                                        spot : {FALSE}]]
    /\ GroupsOfInstancesExist(instances, security_groups)
    /\ next_group_id = Cardinality(DOMAIN security_groups) + 1
    /\ spot_requests = <<>>
    /\ calls = <<>>
    /\ pc = "destroy"
    /\ die_on_error = FALSE
    /\ main_nodes = {}
    /\ subordinate_nodes = {}
    /\ exit_code = -1
    /\ main_group = NoGroup
    /\ subordinate_group = NoGroup
    /\ existing_mains = {}
    /\ existing_subordinates = {}
    /\ zone_i = 0
    /\ my_req_ids = {}
    /\ polls = 0
    /\ observed = <<>>
    /\ warned = FALSE
    /\ DestroyIdle

\* lines 937-938: the locator, tolerating an empty cluster
DestroyLocate ==
    LET r == get_existing_cluster(instances) IN
    /\ pc = "destroy"
    /\ main_nodes' = r.main_nodes
    /\ subordinate_nodes' = r.subordinate_nodes
    /\ calls' = Append(calls, InstanceCall("get_all_instances", "", 0, 0, {}))
    /\ pc' = "confirm"
    /\ UNCHANGED <<instances, security_groups, next_group_id, spot_requests,
                   die_on_error, exit_code, launchVars, runVars, destroyVars>>

\* a prompt that takes the capital letter too
confirmed_any_case(answer) == answer \in {"y", "Y"}

\* lines 944, 1014, 1035: if response == "y"
confirmed(answer) == answer = "y"

\* lines 942-944: the answer to the prompt; anything but "y" ends the action
DestroyConfirm(answer) ==
    /\ pc = "confirm"
    /\ response' = answer
    /\ IF confirmed(answer)
       THEN pc' = "terminate" /\ UNCHANGED exit_code
       ELSE pc' = "done" /\ exit_code' = 0
    /\ UNCHANGED <<cloudVars, die_on_error, main_nodes, subordinate_nodes, launchVars, runVars,
                   attempt, success, groups, work>>

\* a destroy that always deletes the groups
deletes_groups_always(o) == TRUE

\* line 953: if opts.delete_groups
deletes_groups(o) == o.delete_groups

\* lines 945-953: terminate the mains, then the subordinates
DestroyTerminate ==
    LET ms == SeqOfSet(main_nodes)
        ss == SeqOfSet(subordinate_nodes)
    IN
    /\ pc = "terminate"
    /\ instances' = [id \in DOMAIN instances |->
                        IF id \in main_nodes \cup subordinate_nodes
                        THEN [instances[id] EXCEPT !.state = "shutting-down"]
                        ELSE instances[id]]
    /\ calls' = calls
                \o [k \in DOMAIN ms |-> InstanceCall("terminate_instances", "main", 0, 1, {ms[k]})]
                \o [k \in DOMAIN ss |->
                        InstanceCall("terminate_instances", "subordinates", 0, 1, {ss[k]})]
    /\ IF deletes_groups(opts)
       THEN pc' = "wait_terminated" /\ UNCHANGED exit_code
       ELSE pc' = "done" /\ exit_code' = 0
    /\ UNCHANGED <<security_groups, next_group_id, spot_requests, die_on_error, main_nodes,
                   subordinate_nodes, launchVars, runVars, destroyVars>>

\* a wait that takes an instance on its way to the state for one in it
cluster_in_state_or_on_the_way(insts, nodes, cluster_state) ==
    \A id \in nodes : insts[id].state \in {cluster_state, "shutting-down"}

\* wait_for_cluster_state line 643: every instance is in the awaited state
cluster_in_state(insts, nodes, cluster_state) ==
    \A id \in nodes : insts[id].state = cluster_state

\* the provider finishes terminating an instance
InstanceTerminated(id) ==
    /\ pc = "wait_terminated"
    /\ id \in DOMAIN instances
    /\ instances[id].state = "shutting-down"
    /\ instances' = [instances EXCEPT ![id].state = "terminated"]
    /\ UNCHANGED <<security_groups, next_group_id, spot_requests, calls, progVars,
                   launchVars, runVars, destroyVars>>

\* lines 956-961: the round of wait_for_cluster_state that finds every instance
\* terminated (a round that does not changes nothing and is followed by another)
WaitTerminated ==
    /\ pc = "wait_terminated"
    /\ cluster_in_state(instances, main_nodes \cup subordinate_nodes, "terminated")
    /\ seen' = {id \in main_nodes \cup subordinate_nodes : instances[id].state = "terminated"}
    /\ attempt' = 1
    /\ pc' = "teardown"
    /\ UNCHANGED <<cloudVars, die_on_error, main_nodes, subordinate_nodes, exit_code,
                   launchVars, action, ssh_up, rounds, reported, response, success, groups,
                   work>>

\* a loop that runs one attempt more
attempts_left_one_more(a) == a <= TeardownAttempts + 1

\* line 962: while attempt <= 3
attempts_left(a) == a <= TeardownAttempts

\* lines 962-965: an attempt begins by listing the cluster's groups
TeardownList ==
    /\ pc = "teardown"
    /\ attempts_left(attempt)
    /\ \E order \in ListingOrders(DOMAIN security_groups \cap GroupNames) :
        /\ groups' = [k \in DOMAIN order |->
                        [name |-> order[k], id |-> security_groups[order[k]].id,
                         rules |-> RulesInOrder(security_groups[order[k]].rules)]]
        /\ work' = teardown_work(groups')
    /\ success' = TRUE
    /\ calls' = Append(calls, GroupCall("get_all_security_groups", "", 0, {}))
    /\ pc' = "teardown_work"
    /\ UNCHANGED <<instances, security_groups, next_group_id, spot_requests, die_on_error,
                   main_nodes, subordinate_nodes, exit_code, launchVars, runVars, response, attempt>>

\* lines 972-975: one group.revoke call. The provider removes the rule or not,
\* and answers True or False, whichever it did (line 988).
TeardownRevoke ==
    LET c == Head(work) IN
    /\ pc = "teardown_work"
    /\ work # <<>>
    /\ c.op = "revoke"
    /\ \E removed \in BOOLEAN, answer \in BOOLEAN :
        /\ security_groups' =
            IF removed THEN [security_groups EXCEPT ![c.group].rules = @ \ c.rules]
                       ELSE security_groups
        /\ success' = (success /\ answer)
    /\ calls' = Append(calls, c)
    /\ work' = Tail(work)
    /\ UNCHANGED <<instances, next_group_id, spot_requests, progVars, launchVars, runVars,
                   response, attempt, groups>>

\* lines 981-983: conn.delete_security_group succeeds
TeardownDeleted ==
    LET c == Head(work) IN
    /\ pc = "teardown_work"
    /\ work # <<>>
    /\ c.op = "delete_security_group"
    /\ deletable(security_groups, c.group)
    /\ security_groups' = [n \in DOMAIN security_groups \ {c.group} |-> security_groups[n]]
    /\ calls' = Append(calls, c)
    /\ work' = Tail(work)
    /\ UNCHANGED <<instances, next_group_id, spot_requests, progVars, launchVars, runVars,
                   response, attempt, success, groups>>

\* lines 984-986: conn.delete_security_group raises EC2ResponseError: the group
\* is still named by a rule, or the provider has not caught up
TeardownDeleteFailed ==
    LET c == Head(work) IN
    /\ pc = "teardown_work"
    /\ work # <<>>
    /\ c.op = "delete_security_group"
    /\ success' = FALSE
    /\ calls' = Append(calls, c)
    /\ work' = Tail(work)
    /\ UNCHANGED <<instances, security_groups, next_group_id, spot_requests, progVars,
                   launchVars, runVars, response, attempt, groups>>

\* lines 990-993: the end of an attempt
TeardownAttemptEnd ==
    /\ pc = "teardown_work"
    /\ work = <<>>
    /\ IF success
       THEN pc' = "done" /\ exit_code' = 0 /\ UNCHANGED attempt
       ELSE pc' = "teardown" /\ attempt' = attempt + 1 /\ UNCHANGED exit_code
    /\ UNCHANGED <<cloudVars, die_on_error, main_nodes, subordinate_nodes, launchVars, runVars,
                   response, success, groups, work>>

\* lines 962 and 995-997: no attempt is left; the failure is printed
TeardownGiveUp ==
    /\ pc = "teardown"
    /\ ~attempts_left(attempt)
    /\ reported' = ~success
    /\ pc' = "done"
    /\ exit_code' = 0
    /\ UNCHANGED <<cloudVars, die_on_error, main_nodes, subordinate_nodes, launchVars,
                   action, ssh_up, rounds, seen, destroyVars>>

\* ---- real_main: the other actions ------------------------------------------
\* the action keywords; "resume" is launch with opts.resume
Actions == {"launch", "resume", "destroy", "login", "reboot-subordinates", "get-main",
            "stop", "start"}

\* what the operator can answer to a prompt
Answers == {"y", "n", "Y"}

\* where real_main is after parse_args and the connection, for an action
FirstStep(a) ==
    CASE a \in {"launch", "resume"} -> "args"
      [] a = "destroy" -> "destroy"
      [] a \in {"stop", "reboot-subordinates"} -> "ask"
      [] OTHER -> "locate"

\* The inputs of a run of real_main: the action, the instances the provider
\* lists (spot-requested ones for a stop), the cluster's two groups, one with
\* a rule and one without, and for a destroy whether the groups go too.
MainInit ==
    /\ action \in Actions
    /\ \E n \in 0..MaxRunListed :
        instances \in [1..n -> [state : {"running", "stopped", "terminated"},
                                groups : {{"main"}, {"subordinates"}},
                                spot : IF action = "stop" THEN BOOLEAN ELSE {FALSE}]]
    /\ opts \in [subordinates : IF action \in {"launch", "resume"} THEN 0..MaxRunWorkers
                                                                    ELSE {1},
                 num_zones : {1}, spot : {FALSE},
                 use_existing_main : IF action = "launch" THEN BOOLEAN ELSE {FALSE},
                 ganglia : {FALSE},
                 delete_groups : IF action = "destroy" THEN BOOLEAN ELSE {FALSE}]
    /\ security_groups =
        [n \in GroupNames |->
            IF n = "main" THEN [id |-> 1, rules |-> {GroupRule("subordinates")}]
                          ELSE [id |-> 2, rules |-> {}]]
    /\ next_group_id = Cardinality(DOMAIN security_groups) + 1
    /\ spot_requests = <<>>
    /\ calls = <<>>
    /\ pc = FirstStep(action)
    /\ die_on_error = (FirstStep(action) = "locate")
    /\ main_nodes = {}
    /\ subordinate_nodes = {}
    /\ exit_code = -1
    /\ main_group = NoGroup
    /\ subordinate_group = NoGroup
    /\ existing_mains = {}
    /\ existing_subordinates = {}
    /\ zone_i = 0
    /\ my_req_ids = {}
    /\ polls = 0
    /\ observed = <<>>
    /\ warned = FALSE
    /\ DestroyIdle
    /\ RunIdle

\* lines 919-926: launch needs at least one subordinate; with opts.resume the
\* cluster is looked up (a main is required), else launch_cluster is called
MainArgs ==
    /\ pc = "args"
    /\ IF opts.subordinates <= 0
       THEN pc' = "exit" /\ exit_code' = 1 /\ UNCHANGED die_on_error
       ELSE /\ pc' = IF action = "resume" THEN "locate" ELSE "launch_cluster"
            /\ die_on_error' = (action = "resume")
            /\ UNCHANGED exit_code
    /\ UNCHANGED <<cloudVars, main_nodes, subordinate_nodes, launchVars, destroyVars, runVars>>

\* the calls of the on-demand loop for one zone, zone 0 (lines 442-456)
RunCalls(n, ids) ==
    IF zone_gets_request(n) THEN <<InstanceCall("run_instances", "subordinates", 0, n, ids)>>
                            ELSE <<>>

\* lines 483-490: the add_tag calls, mains first
TagCalls(mains, subordinates) ==
    LET ms == SeqOfSet(mains)
        ss == SeqOfSet(subordinates)
    IN [k \in DOMAIN ms |-> InstanceCall("add_tag", "main", 0, 1, {ms[k]})]
       \o [k \in DOMAIN ss |-> InstanceCall("add_tag", "subordinates", 0, 1, {ss[k]})]

\* line 926: launch_cluster as one step, on demand and in one zone: the two
\* groups are looked up or made and given their rules, and then either the
\* cluster is occupied and the process exits (line 340), or the subordinates
\* and a main are run, or the existing mains started, the instances named and
\* returned (line 493); if the provider answers the call for the main with an
\* error, the exception ends the process after the subordinates were run
LaunchCluster ==
    LET g1 == get_or_make_group(security_groups, next_group_id, "main")
        id2 == IF g1.created THEN next_group_id + 1 ELSE next_group_id
        g2 == get_or_make_group(g1.groups, id2, "subordinates")
        mrules == IF needs_default_rules(g1.group) THEN main_default_rules(opts.ganglia)
                                                   ELSE <<>>
        srules == IF needs_default_rules(g2.group) THEN subordinate_default_rules ELSE <<>>
        sgs == authorize_all(authorize_all(g2.groups, "main", mrules), "subordinates", srules)
        r == get_existing_cluster(instances)
        n == get_partition(opts.subordinates, opts.num_zones, 0)
        new_subs == NextId(instances)..(NextId(instances) + n - 1)
        with_subs == AddInstances(instances, new_subs, "subordinates", FALSE)
        new_main == NextId(with_subs)
        group_calls ==
            <<GroupCall(IF g1.created THEN "create_security_group" ELSE "get_security_group",
                        "main", g1.group.id, g1.group.rules),
              GroupCall(IF g2.created THEN "create_security_group" ELSE "get_security_group",
                        "subordinates", g2.group.id, g2.group.rules)>>
            \o AuthorizeCalls(g1.group, mrules) \o AuthorizeCalls(g2.group, srules)
            \o <<InstanceCall("get_all_instances", "", 0, 0, {})>>
        order == SeqOfSet(r.main_nodes)
    IN
    /\ pc = "launch_cluster"
    /\ security_groups' = sgs
    /\ next_group_id' = IF g2.created THEN id2 + 1 ELSE id2
    /\ existing_mains' = r.main_nodes
    /\ existing_subordinates' = r.subordinate_nodes
    /\ main_group' = g1.group
    /\ subordinate_group' = g2.group
    /\ IF cluster_occupied(r.main_nodes, r.subordinate_nodes, opts.use_existing_main)
       THEN /\ calls' = calls \o group_calls
            /\ pc' = "exit"
            /\ exit_code' = 1
            /\ UNCHANGED <<instances, main_nodes, subordinate_nodes>>
       ELSE \E main_ok \in BOOLEAN :
            LET mains == IF ~main_ok THEN {}
                         ELSE IF r.main_nodes # {} THEN r.main_nodes ELSE {new_main}
                main_calls ==
                    IF ~main_ok THEN <<MainErrorCall(r.main_nodes)>>
                    ELSE IF r.main_nodes # {}
                    THEN [k \in DOMAIN order |->
                            InstanceCall("start_instances", "main", 0, 1, {order[k]})]
                    ELSE <<InstanceCall("run_instances", "main", 0, 1, {new_main})>>
            IN
            /\ instances' =
                  IF ~main_ok THEN with_subs
                  ELSE IF r.main_nodes # {}
                  THEN [id \in DOMAIN with_subs |->
                            IF id \in r.main_nodes THEN started(with_subs[id])
                                                   ELSE with_subs[id]]
                  ELSE AddInstances(with_subs, {new_main}, "main", FALSE)
            /\ IF launch_continues(main_ok)
               THEN /\ calls' = calls \o group_calls \o RunCalls(n, new_subs) \o main_calls
                                 \o TagCalls(mains, new_subs)
                    /\ main_nodes' = mains
                    /\ subordinate_nodes' = new_subs
                    /\ pc' = "launched"
                    /\ UNCHANGED exit_code
               ELSE /\ calls' = calls \o group_calls \o RunCalls(n, new_subs) \o main_calls
                    /\ pc' = "raised"
                    /\ exit_code' = 1
                    /\ UNCHANGED <<main_nodes, subordinate_nodes>>
    /\ UNCHANGED <<spot_requests, die_on_error, opts, zone_i, my_req_ids, polls, observed,
                   warned, destroyVars, runVars>>

\* lines 1010-1014 and 1028-1035: the prompt of reboot-subordinates and of stop;
\* anything but "y" ends the action
AskConfirm(answer) ==
    /\ pc = "ask"
    /\ response' = answer
    /\ IF confirmed(answer)
       THEN pc' = "locate" /\ UNCHANGED exit_code
       ELSE pc' = "done" /\ exit_code' = 0
    /\ UNCHANGED <<cloudVars, die_on_error, main_nodes, subordinate_nodes, launchVars,
                   attempt, success, groups, work, runVars>>

\* the state the provider gives an instance that is told to stop
stopped_by_call(inst) ==
    IF inst.state \in {"pending", "running"} THEN [inst EXCEPT !.state = "stopping"] ELSE inst

\* the state the provider gives an instance that is told to terminate
terminated_by_call(inst) == [inst EXCEPT !.state = "shutting-down"]

\* a stop that tells every subordinate to stop
stop_terminates_never(inst) == FALSE

\* line 1045: if inst.spot_instance_request_id
stop_terminates(inst) == inst.spot

\* lines 1038-1048: stop the mains; terminate the subordinates that came from a
\* spot request and stop the others. The states tested at lines 1040 and 1044
\* (and 1019, 1054, 1058) are those the locator saw, all of them active.
StopNodes ==
    LET ms == SeqOfSet(main_nodes)
        ss == SeqOfSet(subordinate_nodes)
    IN
    /\ pc = "located"
    /\ action = "stop"
    /\ instances' = [id \in DOMAIN instances |->
                        IF id \in main_nodes THEN stopped_by_call(instances[id])
                        ELSE IF id \in subordinate_nodes
                             THEN IF stop_terminates(instances[id])
                                  THEN terminated_by_call(instances[id])
                                  ELSE stopped_by_call(instances[id])
                             ELSE instances[id]]
    /\ calls' = calls
                \o [k \in DOMAIN ms |-> InstanceCall("stop_instances", "main", 0, 1, {ms[k]})]
                \o [k \in DOMAIN ss |->
                        InstanceCall(IF stop_terminates(instances[ss[k]])
                                     THEN "terminate_instances" ELSE "stop_instances",
                                     "subordinates", 0, 1, {ss[k]})]
    /\ pc' = "done"
    /\ exit_code' = 0
    /\ UNCHANGED <<security_groups, next_group_id, spot_requests, die_on_error, main_nodes,
                   subordinate_nodes, launchVars, destroyVars, runVars>>

\* a reboot of the whole cluster
reboot_targets_all(mains, subordinates) == mains \cup subordinates

\* line 1018: for inst in subordinate_nodes
reboot_targets(mains, subordinates) == subordinates

\* lines 1017-1021: reboot the subordinates; a rebooted instance stays in its state
RebootNodes ==
    LET ts == SeqOfSet(reboot_targets(main_nodes, subordinate_nodes)) IN
    /\ pc = "located"
    /\ action = "reboot-subordinates"
    /\ calls' = calls \o [k \in DOMAIN ts |->
                            InstanceCall("reboot_instances",
                                         IF ts[k] \in main_nodes THEN "main" ELSE "subordinates",
                                         0, 1, {ts[k]})]
    /\ pc' = "done"
    /\ exit_code' = 0
    /\ UNCHANGED <<instances, security_groups, next_group_id, spot_requests, die_on_error,
                   main_nodes, subordinate_nodes, launchVars, destroyVars, runVars>>

\* lines 1052-1059: start the subordinates, then the mains
StartNodes ==
    LET ms == SeqOfSet(main_nodes)
        ss == SeqOfSet(subordinate_nodes)
    IN
    /\ pc = "located"
    /\ action = "start"
    /\ instances' = [id \in DOMAIN instances |->
                        IF id \in main_nodes \cup subordinate_nodes THEN started(instances[id])
                                                                    ELSE instances[id]]
    /\ calls' = calls
                \o [k \in DOMAIN ss |->
                        InstanceCall("start_instances", "subordinates", 0, 1, {ss[k]})]
                \o [k \in DOMAIN ms |-> InstanceCall("start_instances", "main", 0, 1, {ms[k]})]
    /\ pc' = "started"
    /\ UNCHANGED <<security_groups, next_group_id, spot_requests, die_on_error, main_nodes,
                   subordinate_nodes, exit_code, launchVars, destroyVars, runVars>>

\* lines 1001-1007: the interactive session on the first main
Login ==
    /\ pc = "located"
    /\ action = "login"
    /\ calls' = Append(calls, InstanceCall("ssh", "main", 0, 1,
                                           {CHOOSE id \in main_nodes :
                                                \A other \in main_nodes : id <= other}))
    /\ pc' = "done"
    /\ exit_code' = 0
    /\ UNCHANGED <<instances, security_groups, next_group_id, spot_requests, die_on_error,
                   main_nodes, subordinate_nodes, launchVars, destroyVars, runVars>>

\* line 1025: print the first main's address
GetMain ==
    /\ pc = "located"
    /\ action = "get-main"
    /\ pc' = "done"
    /\ exit_code' = 0
    /\ UNCHANGED <<cloudVars, die_on_error, main_nodes, subordinate_nodes, launchVars,
                   destroyVars, runVars>>

\* ---- wait_for_cluster_state(ssh-ready) and setup_cluster --------------------
\* is_cluster_ssh_available: the probe of every instance answers
is_cluster_ssh_available(nodes, up) == \A id \in nodes : id \in up

\* a wait that does not probe the remote shell
cluster_ssh_ready_state_only(insts, nodes, up) == cluster_in_state(insts, nodes, "running")

\* lines 639-641: all instances running and the remote shell of each answering
cluster_ssh_ready(insts, nodes, up) ==
    cluster_in_state(insts, nodes, "running") /\ is_cluster_ssh_available(nodes, up)

\* lines 927 and 1060, 625-630: wait_for_cluster_state is entered with the
\* instances launched, located for a resume, or started
WaitBegin ==
    /\ \/ pc = "launched"
       \/ pc = "started"
       \/ pc = "located" /\ action = "resume"
    /\ rounds' = 0
    /\ pc' = "wait_ssh"
    /\ UNCHANGED <<cloudVars, die_on_error, main_nodes, subordinate_nodes, exit_code,
                   launchVars, destroyVars, action, ssh_up, seen, reported>>

\* the provider: a pending instance comes to run
InstanceRuns(id) ==
    /\ pc = "wait_ssh"
    /\ instances[id].state = "pending"
    /\ instances' = [instances EXCEPT ![id].state = "running"]
    /\ UNCHANGED <<security_groups, next_group_id, spot_requests, calls, progVars,
                   launchVars, destroyVars, runVars>>

\* the remote shell of a running instance begins to answer
ShellUp(id) ==
    /\ pc = "wait_ssh"
    /\ instances[id].state = "running"
    /\ id \notin ssh_up
    /\ ssh_up' = ssh_up \cup {id}
    /\ UNCHANGED <<cloudVars, progVars, launchVars, destroyVars, action, rounds, seen,
                   reported>>

\* lines 634-648: one round of the loop: the states are refreshed and the
\* condition tested; the round that finds it true ends the wait, any other
\* counts an attempt
WaitRound ==
    LET nodes == main_nodes \cup subordinate_nodes IN
    /\ pc = "wait_ssh"
    /\ IF cluster_ssh_ready(instances, nodes, ssh_up)
       THEN /\ seen' = {id \in nodes : instances[id].state = "running" /\ id \in ssh_up}
            /\ pc' = "setup"
            /\ UNCHANGED rounds
       ELSE /\ rounds < MaxRounds
            /\ rounds' = rounds + 1
            /\ UNCHANGED <<seen, pc>>
    /\ UNCHANGED <<cloudVars, die_on_error, main_nodes, subordinate_nodes, exit_code,
                   launchVars, destroyVars, action, ssh_up, reported>>

\* a handoff that deploys the key whatever the action
deploy_ssh_key_always(a) == TRUE

\* lines 932 and 1065: the last argument of setup_cluster, True in a launch
\* (a resumed one too), False in a start
deploy_ssh_key(a) == a \in {"launch", "resume"}

\* lines 530-543: with deploy_ssh_key, the key_setup command on the first
\* main, the read of its ~/.ssh, and one ssh_write to every subordinate
key_deployment(mains, subordinates, deploy) ==
    LET main == {CHOOSE id \in mains : \A other \in mains : id <= other}
        ss == SeqOfSet(subordinates)
    IN IF deploy
       THEN <<InstanceCall("key_setup", "main", 0, 1, main),
              InstanceCall("ssh_read", "main", 0, 1, main)>>
            \o [k \in DOMAIN ss |-> InstanceCall("ssh_write", "subordinates", 0, 1, {ss[k]})]
       ELSE <<>>

\* lines 529-575: setup_cluster deploys the key if told to and then runs its
\* commands on the main over the remote shell; a command that still fails
\* after its retries ends the process with an error, and what would follow it
\* is not run
SetupCluster ==
    LET nodes == main_nodes \cup subordinate_nodes
        steps == key_deployment(main_nodes, subordinate_nodes, deploy_ssh_key(action))
                 \o <<InstanceCall("setup_cluster", "main", 0, Cardinality(nodes), nodes)>>
    IN
    /\ pc = "setup"
    /\ \E failed \in 0..Len(steps) :
         IF failed = 0
         THEN /\ calls' = calls \o steps
              /\ pc' = "done"
              /\ exit_code' = 0
         ELSE /\ calls' = calls \o SubSeq(steps, 1, failed)
              /\ pc' = "exit"
              /\ exit_code' = 1
    /\ UNCHANGED <<instances, security_groups, next_group_id, spot_requests, die_on_error,
                   main_nodes, subordinate_nodes, launchVars, destroyVars, runVars>>

\* ---- wait_for_cluster_state as a call of its own ---------------------------
\* the states the callers wait for: lines 927 and 1060, line 996
WantedStates == {"ssh-ready", "terminated"}

\* lines 609-614, called at line 640 only when every refreshed state is
\* 'running': the instances probed, in the order of the list, up to and with
\* the first whose probe fails
probes_sent_to_any_state(insts, nodes, up) ==
    LET order == SeqOfSet(nodes)
        failing == {k \in DOMAIN order : order[k] \notin up}
        last == IF failing = {} THEN Len(order)
                ELSE CHOOSE k \in failing : \A other \in failing : k <= other
    IN SubSeq(order, 1, last)

probes_sent(insts, nodes, up) ==
    LET order == SeqOfSet(nodes)
        failing == {k \in DOMAIN order : order[k] \notin up}
        last == IF failing = {} THEN Len(order)
                ELSE CHOOSE k \in failing : \A other \in failing : k <= other
    IN IF cluster_in_state(insts, nodes, "running") THEN SubSeq(order, 1, last) ELSE <<>>

\* a test that is content with one instance in the state waited for
wait_over_for_any(insts, nodes, up, cluster_state) ==
    IF cluster_state = "ssh-ready"
    THEN \E id \in nodes : insts[id].state = "running" /\ id \in up
    ELSE \E id \in nodes : insts[id].state = cluster_state

\* lines 638-644: the test that breaks out of the loop
wait_over(insts, nodes, up, cluster_state) ==
    IF cluster_state = "ssh-ready" THEN cluster_ssh_ready(insts, nodes, up)
                                   ELSE cluster_in_state(insts, nodes, cluster_state)

\* a sleep of the same length before every round
sleep_seconds_constant(num_attempts) == 3

\* line 633: time.sleep(3 * num_attempts)
sleep_seconds(num_attempts) == 3 * num_attempts

\* lines 617-630: the call is entered with instance objects that hold the
\* states the provider last gave; num_attempts = 0
WaitForInit ==
    /\ \E n \in 0..MaxWaitListed :
         instances \in [1..n -> [state : {"pending", "running", "shutting-down"},
                                 groups : {{"subordinates"}}, spot : {FALSE}]]
    /\ security_groups = [n \in GroupNames |->
                            IF n = "main" THEN [id |-> 1, rules |-> {GroupRule("subordinates")}]
                                          ELSE [id |-> 2, rules |-> {}]]
    /\ next_group_id = 3
    /\ spot_requests = <<>>
    /\ calls = <<>>
    /\ pc = "wait"
    /\ die_on_error = FALSE
    /\ main_nodes = {}
    /\ subordinate_nodes = DOMAIN instances
    /\ exit_code = -1
    /\ action = ""
    /\ ssh_up = {}
    /\ rounds = 0
    /\ seen = {}
    /\ reported = FALSE
    /\ wanted_state \in WantedStates
    /\ view = instances
    /\ sleeps = <<>>
    /\ probes = <<>>

\* the provider: an instance moves on in its life
ProviderMoves(id) ==
    /\ pc = "wait"
    /\ instances[id].state \in {"pending", "running", "shutting-down"}
    /\ instances' = [instances EXCEPT ![id].state =
                        CASE @ = "pending" -> "running"
                          [] @ = "running" -> "shutting-down"
                          [] OTHER -> "terminated"]
    /\ ssh_up' = ssh_up \ {id}
    /\ UNCHANGED <<security_groups, next_group_id, spot_requests, calls, progVars, action,
                   rounds, seen, reported, waitVars>>

\* the remote shell of a running instance begins or ceases to answer
ShellChanges(id) ==
    /\ pc = "wait"
    /\ instances[id].state = "running"
    /\ ssh_up' = IF id \in ssh_up THEN ssh_up \ {id} ELSE ssh_up \cup {id}
    /\ UNCHANGED <<cloudVars, progVars, action, rounds, seen, reported, waitVars>>

\* lines 632-649: one round of the loop: the sleep of 3 * num_attempts
\* seconds, i.update() on every instance, the test, and either the break or
\* num_attempts += 1. The model counts the failed rounds up to MaxWaitRounds
\* and lets the loop go on beyond that.
WaitForRound ==
    LET nodes == main_nodes \cup subordinate_nodes
        refreshed == [id \in nodes |-> instances[id]]
        sent == IF wanted_state = "ssh-ready" THEN probes_sent(refreshed, nodes, ssh_up)
                                              ELSE <<>>
    IN
    /\ pc = "wait"
    /\ sleeps' = IF Len(sleeps) = rounds THEN Append(sleeps, sleep_seconds(rounds)) ELSE sleeps
    /\ view' = refreshed
    /\ probes' = sent
    /\ seen' = IF wanted_state = "ssh-ready"
               THEN {id \in Range(sent) : id \in ssh_up}
               ELSE {id \in nodes : refreshed[id].state = wanted_state}
    /\ IF wait_over(refreshed, nodes, ssh_up, wanted_state)
       THEN /\ pc' = "returned"
            /\ UNCHANGED rounds
       ELSE /\ rounds' = IF rounds < MaxWaitRounds THEN rounds + 1 ELSE rounds
            /\ UNCHANGED pc
    /\ UNCHANGED <<cloudVars, die_on_error, main_nodes, subordinate_nodes, exit_code, action,
                   ssh_up, reported, wanted_state>>

\* ---- two launches of one cluster at once -------------------------------------
\* the invocations
RaceProcs == {1, 2}

\* launch_cluster is entered (line 307): nothing looked up yet
RaceStart ==
    [pc |-> "get_main_group", main_group |-> NoGroup, subordinate_group |-> NoGroup,
     saw_absent |-> {}, created |-> {}, rule_i |-> 1, existing_mains |-> {},
     existing_subordinates |-> {}, subordinate_nodes |-> {}, main_nodes |-> {}]

\* both invocations are given the same cluster name and options; the cluster
\* has no instance, and its groups are either not there yet or there with the
\* rules an earlier launch gave them
RaceInit ==
    /\ procs = [p \in RaceProcs |-> RaceStart]
    /\ instances = <<>>
    /\ \/ security_groups = <<>> /\ next_group_id = 1
       \/ /\ security_groups = [n \in GroupNames |->
                [id |-> IF n = "main" THEN 1 ELSE 2,
                 rules |-> IF n = "main" THEN Range(main_default_rules(FALSE))
                                         ELSE Range(subordinate_default_rules)]]
          /\ next_group_id = 3
    /\ spot_requests = <<>>
    /\ calls = <<>>
    /\ \E n \in 1..MaxRaceWorkers :
         opts = [subordinates |-> n, num_zones |-> 1, spot |-> FALSE,
                 use_existing_main |-> FALSE, ganglia |-> FALSE, delete_groups |-> FALSE]
    /\ main_group = NoGroup
    /\ subordinate_group = NoGroup
    /\ existing_mains = {}
    /\ existing_subordinates = {}
    /\ zone_i = 0
    /\ my_req_ids = {}
    /\ polls = 0
    /\ observed = <<>>
    /\ warned = FALSE

\* the field of the invocation's record that holds the group object
GroupField(name) == IF name = "main" THEN "main_group" ELSE "subordinate_group"

\* lines 310-332: what follows the two get_or_make_group calls
AfterGroups(mg, sg) ==
    IF needs_default_rules(mg) THEN "authorize_main"
    ELSE IF needs_default_rules(sg) THEN "authorize_subordinates"
    ELSE "check_existing"

\* what follows get_or_make_group(name) for an invocation with record `me`
AfterGroup(me, name) ==
    IF name = "main" THEN "get_subordinate_group"
    ELSE AfterGroups(me.main_group, me.subordinate_group)

\* lines 188-191: conn.get_all_security_groups() and the test of the name
RaceLookup(p, name) ==
    LET me == procs[p] IN
    /\ me.pc = (IF name = "main" THEN "get_main_group" ELSE "get_subordinate_group")
    /\ IF name \in DOMAIN security_groups
       THEN LET found == [me EXCEPT ![GroupField(name)] =
                            [name |-> name, id |-> security_groups[name].id,
                             rules |-> security_groups[name].rules]]
            IN procs' = [procs EXCEPT ![p] = [found EXCEPT !.pc = AfterGroup(found, name)]]
       ELSE procs' = [procs EXCEPT ![p] =
                        [me EXCEPT !.saw_absent = @ \cup {name},
                                   !.pc = IF name = "main" THEN "create_main_group"
                                                          ELSE "create_subordinate_group"]]
    /\ UNCHANGED <<cloudVars, launchVars>>

\* lines 193-195: conn.create_security_group(name, ...) returns a group object
\* without rules. If the other invocation made the group in the meantime the
\* provider either answers with an error, which nothing catches, or accepts
\* the call.
RaceCreate(p, name) ==
    LET me == procs[p]
        present == name \in DOMAIN security_groups
        id == IF present THEN security_groups[name].id ELSE next_group_id
        made == [me EXCEPT ![GroupField(name)] = [name |-> name, id |-> id, rules |-> {}],
                           !.created = @ \cup {name}]
    IN
    /\ me.pc = (IF name = "main" THEN "create_main_group" ELSE "create_subordinate_group")
    /\ \E accepted \in BOOLEAN :
         IF present /\ ~accepted
         THEN /\ procs' = [procs EXCEPT ![p] = [me EXCEPT !.pc = "raised"]]
              /\ UNCHANGED <<security_groups, next_group_id>>
         ELSE /\ procs' = [procs EXCEPT ![p] = [made EXCEPT !.pc = AfterGroup(made, name)]]
              /\ security_groups' =
                    IF present THEN security_groups
                    ELSE [n \in DOMAIN security_groups \cup {name} |->
                            IF n = name THEN [id |-> id, rules |-> {}] ELSE security_groups[n]]
              /\ next_group_id' = IF present THEN next_group_id ELSE next_group_id + 1
    /\ UNCHANGED <<instances, spot_requests, calls, launchVars>>

\* lines 311-332: one authorize call of the block for group `name`. A rule the
\* other invocation has added already is either answered with an error, which
\* nothing catches, or accepted.
RaceAuthorize(p, name) ==
    LET me == procs[p]
        rules == IF name = "main" THEN main_default_rules(opts.ganglia)
                                  ELSE subordinate_default_rules
        rule == rules[me.rule_i]
        present == rule \in security_groups[name].rules
        next == IF me.rule_i < Len(rules) THEN [me EXCEPT !.rule_i = @ + 1]
                ELSE [me EXCEPT !.rule_i = 1,
                                !.pc = IF name = "main" /\ needs_default_rules(me.subordinate_group)
                                       THEN "authorize_subordinates" ELSE "check_existing"]
    IN
    /\ me.pc = (IF name = "main" THEN "authorize_main" ELSE "authorize_subordinates")
    /\ \E accepted \in BOOLEAN :
         IF present /\ ~accepted
         THEN /\ procs' = [procs EXCEPT ![p] = [me EXCEPT !.pc = "raised"]]
              /\ UNCHANGED security_groups
         ELSE /\ procs' = [procs EXCEPT ![p] = next]
              /\ security_groups' = authorize_all(security_groups, name, <<rule>>)
    /\ UNCHANGED <<instances, next_group_id, spot_requests, calls, launchVars>>

\* lines 335-340: the listing of get_existing_cluster and the occupancy test
RaceCheckExisting(p) ==
    LET me == procs[p]
        r == get_existing_cluster(instances)
    IN
    /\ me.pc = "check_existing"
    /\ procs' = [procs EXCEPT ![p] =
                    [me EXCEPT !.existing_mains = r.main_nodes,
                               !.existing_subordinates = r.subordinate_nodes,
                               !.pc = IF cluster_occupied(r.main_nodes, r.subordinate_nodes,
                                                          opts.use_existing_main)
                                      THEN "exit" ELSE "run_subordinates"]]
    /\ UNCHANGED <<cloudVars, launchVars>>

\* lines 442-456 with one zone: image.run for the subordinates
RaceRunSubordinates(p) ==
    LET me == procs[p]
        n == get_partition(opts.subordinates, opts.num_zones, 0)
        new == NextId(instances)..(NextId(instances) + n - 1)
    IN
    /\ me.pc = "run_subordinates"
    /\ instances' = AddInstances(instances, new, "subordinates", FALSE)
    /\ procs' = [procs EXCEPT ![p] = [me EXCEPT !.subordinate_nodes = new, !.pc = "run_main"]]
    /\ UNCHANGED <<security_groups, next_group_id, spot_requests, calls, launchVars>>

\* lines 465-480: image.run for the main (existing_mains is empty past the
\* occupancy test without --use-existing-main)
RaceRunMain(p) ==
    LET me == procs[p]
        new == NextId(instances)
    IN
    /\ me.pc = "run_main"
    /\ instances' = AddInstances(instances, {new}, "main", FALSE)
    /\ procs' = [procs EXCEPT ![p] = [me EXCEPT !.main_nodes = {new}, !.pc = "tag"]]
    /\ UNCHANGED <<security_groups, next_group_id, spot_requests, calls, launchVars>>

\* lines 483-493: the instances are named and returned
RaceTag(p) ==
    /\ procs[p].pc = "tag"
    /\ procs' = [procs EXCEPT ![p].pc = "launched"]
    /\ UNCHANGED <<cloudVars, launchVars>>

\* ---- specifications ------------------------------------------------------
InitPartition == RaceIdle /\ WaitIdle /\ action = "" /\ RunIdle /\ PartInit /\ SshIdle /\ CloudIdle /\ ProgIdle /\ LaunchIdle /\ DestroyIdle

NextPartition == PartitionCall /\ UNCHANGED <<raceVars, waitVars, runVars, sshVars, cloudVars, progVars, launchVars, destroyVars>>

SpecPartition == InitPartition /\ [][NextPartition]_vars

InitSsh == RaceIdle /\ WaitIdle /\ action = "" /\ RunIdle /\ SshInit /\ PartIdle /\ CloudIdle /\ ProgIdle /\ LaunchIdle /\ DestroyIdle

NextSsh ==
    \/ SshSucceed /\ UNCHANGED <<raceVars, waitVars, runVars, partVars, cloudVars, progVars, launchVars, destroyVars>>
    \/ SshRetry /\ UNCHANGED <<raceVars, waitVars, runVars, partVars, cloudVars, progVars, launchVars, destroyVars>>
    \/ SshRaise /\ UNCHANGED <<raceVars, waitVars, runVars, partVars, cloudVars, progVars, launchVars, destroyVars>>

SpecSsh == InitSsh /\ [][NextSsh]_vars

InitSshWrite == RaceIdle /\ WaitIdle /\ action = "" /\ RunIdle /\ SshWriteInit /\ PartIdle /\ CloudIdle /\ ProgIdle /\ LaunchIdle /\ DestroyIdle

NextSshWrite ==
    \/ SshWriteSucceed /\ UNCHANGED <<raceVars, waitVars, runVars, partVars, cloudVars, progVars, launchVars, destroyVars>>
    \/ SshWriteRetry /\ UNCHANGED <<raceVars, waitVars, runVars, partVars, cloudVars, progVars, launchVars, destroyVars>>
    \/ SshWriteRaise /\ UNCHANGED <<raceVars, waitVars, runVars, partVars, cloudVars, progVars, launchVars, destroyVars>>

SpecSshWrite == InitSshWrite /\ [][NextSshWrite]_vars

InitLocate == RaceIdle /\ WaitIdle /\ action = "" /\ RunIdle /\ LocateInit /\ PartIdle /\ SshIdle /\ LaunchIdle /\ DestroyIdle

NextLocate ==
    \/ LocateReturn /\ UNCHANGED <<raceVars, waitVars, runVars, partVars, sshVars, launchVars, destroyVars>>
    \/ LocateDie /\ UNCHANGED <<raceVars, waitVars, runVars, partVars, sshVars, launchVars, destroyVars>>

SpecLocate == InitLocate /\ [][NextLocate]_vars

InitGroup == RaceIdle /\ WaitIdle /\ action = "" /\ RunIdle /\ GroupInit /\ PartIdle /\ SshIdle /\ ProgIdle /\ LaunchIdle /\ DestroyIdle

NextGroup ==
    \/ \E name \in GroupNames : EnsureGroup(name) /\ UNCHANGED <<raceVars, waitVars, runVars, partVars, sshVars, progVars, launchVars, destroyVars>>
    \/ \E name \in GroupNames : DeleteGroup(name) /\ UNCHANGED <<raceVars, waitVars, runVars, partVars, sshVars, progVars, launchVars, destroyVars>>

SpecGroup == InitGroup /\ [][NextGroup]_vars

InitLaunch == RaceIdle /\ WaitIdle /\ action = "launch" /\ RunIdle /\ LaunchInit /\ PartIdle /\ SshIdle /\ DestroyIdle

NextLaunch ==
    \/ LaunchMainGroup /\ UNCHANGED <<raceVars, waitVars, runVars, partVars, sshVars, destroyVars>>
    \/ LaunchSubordinateGroup /\ UNCHANGED <<raceVars, waitVars, runVars, partVars, sshVars, destroyVars>>
    \/ LaunchMainRules /\ UNCHANGED <<raceVars, waitVars, runVars, partVars, sshVars, destroyVars>>
    \/ LaunchSubordinateRules /\ UNCHANGED <<raceVars, waitVars, runVars, partVars, sshVars, destroyVars>>
    \/ LaunchCheckExisting /\ UNCHANGED <<raceVars, waitVars, runVars, partVars, sshVars, destroyVars>>
    \/ SpotRequest /\ UNCHANGED <<raceVars, waitVars, runVars, partVars, sshVars, destroyVars>>
    \/ \E r \in DOMAIN spot_requests : SpotGrant(r) /\ UNCHANGED <<raceVars, waitVars, runVars, partVars, sshVars, destroyVars>>
    \/ SpotPoll /\ UNCHANGED <<raceVars, waitVars, runVars, partVars, sshVars, destroyVars>>
    \/ SpotInterrupt /\ UNCHANGED <<raceVars, waitVars, runVars, partVars, sshVars, destroyVars>>
    \/ SpotCancel /\ UNCHANGED <<raceVars, waitVars, runVars, partVars, sshVars, destroyVars>>
    \/ SpotRequery /\ UNCHANGED <<raceVars, waitVars, runVars, partVars, sshVars, destroyVars>>
    \/ RunSubordinates /\ UNCHANGED <<raceVars, waitVars, runVars, partVars, sshVars, destroyVars>>
    \/ LaunchMains /\ UNCHANGED <<raceVars, waitVars, runVars, partVars, sshVars, destroyVars>>
    \/ LaunchTag /\ UNCHANGED <<raceVars, waitVars, runVars, partVars, sshVars, destroyVars>>

SpecLaunch == InitLaunch /\ [][NextLaunch]_vars

InitDestroy == RaceIdle /\ WaitIdle /\ action = "destroy" /\ RunIdle /\ DestroyInit /\ PartIdle /\ SshIdle

NextDestroy ==
    \/ DestroyLocate /\ UNCHANGED <<raceVars, waitVars, partVars, sshVars>>
    \/ \E answer \in {"y", "n"} : DestroyConfirm(answer) /\ UNCHANGED <<raceVars, waitVars, partVars, sshVars>>
    \/ DestroyTerminate /\ UNCHANGED <<raceVars, waitVars, partVars, sshVars>>
    \/ \E id \in DOMAIN instances : InstanceTerminated(id) /\ UNCHANGED <<raceVars, waitVars, partVars, sshVars>>
    \/ WaitTerminated /\ UNCHANGED <<raceVars, waitVars, partVars, sshVars>>
    \/ TeardownList /\ UNCHANGED <<raceVars, waitVars, partVars, sshVars>>
    \/ TeardownRevoke /\ UNCHANGED <<raceVars, waitVars, partVars, sshVars>>
    \/ TeardownDeleted /\ UNCHANGED <<raceVars, waitVars, partVars, sshVars>>
    \/ TeardownDeleteFailed /\ UNCHANGED <<raceVars, waitVars, partVars, sshVars>>
    \/ TeardownAttemptEnd /\ UNCHANGED <<raceVars, waitVars, partVars, sshVars>>
    \/ TeardownGiveUp /\ UNCHANGED <<raceVars, waitVars, partVars, sshVars>>

SpecDestroy == InitDestroy /\ [][NextDestroy]_vars

InitMain == RaceIdle /\ WaitIdle /\ MainInit /\ PartIdle /\ SshIdle

NextMain ==
    \/ MainArgs /\ UNCHANGED <<raceVars, waitVars, partVars, sshVars>>
    \/ LaunchCluster /\ UNCHANGED <<raceVars, waitVars, partVars, sshVars>>
    \/ LocateReturn /\ UNCHANGED <<raceVars, waitVars, partVars, sshVars, launchVars, destroyVars, runVars>>
    \/ LocateDie /\ UNCHANGED <<raceVars, waitVars, partVars, sshVars, launchVars, destroyVars, runVars>>
    \/ \E answer \in Answers : AskConfirm(answer) /\ UNCHANGED <<raceVars, waitVars, partVars, sshVars>>
    \/ StopNodes /\ UNCHANGED <<raceVars, waitVars, partVars, sshVars>>
    \/ RebootNodes /\ UNCHANGED <<raceVars, waitVars, partVars, sshVars>>
    \/ StartNodes /\ UNCHANGED <<raceVars, waitVars, partVars, sshVars>>
    \/ Login /\ UNCHANGED <<raceVars, waitVars, partVars, sshVars>>
    \/ GetMain /\ UNCHANGED <<raceVars, waitVars, partVars, sshVars>>
    \/ WaitBegin /\ UNCHANGED <<raceVars, waitVars, partVars, sshVars>>
    \/ \E id \in DOMAIN instances : InstanceRuns(id) /\ UNCHANGED <<raceVars, waitVars, partVars, sshVars>>
    \/ \E id \in DOMAIN instances : ShellUp(id) /\ UNCHANGED <<raceVars, waitVars, partVars, sshVars>>
    \/ WaitRound /\ UNCHANGED <<raceVars, waitVars, partVars, sshVars>>
    \/ SetupCluster /\ UNCHANGED <<raceVars, waitVars, partVars, sshVars>>
    \/ DestroyLocate /\ UNCHANGED <<raceVars, waitVars, partVars, sshVars>>
    \/ \E answer \in Answers : DestroyConfirm(answer) /\ UNCHANGED <<raceVars, waitVars, partVars, sshVars>>
    \/ DestroyTerminate /\ UNCHANGED <<raceVars, waitVars, partVars, sshVars>>
    \/ \E id \in DOMAIN instances : InstanceTerminated(id) /\ UNCHANGED <<raceVars, waitVars, partVars, sshVars>>
    \/ WaitTerminated /\ UNCHANGED <<raceVars, waitVars, partVars, sshVars>>
    \/ TeardownList /\ UNCHANGED <<raceVars, waitVars, partVars, sshVars>>
    \/ TeardownRevoke /\ UNCHANGED <<raceVars, waitVars, partVars, sshVars>>
    \/ TeardownDeleted /\ UNCHANGED <<raceVars, waitVars, partVars, sshVars>>
    \/ TeardownDeleteFailed /\ UNCHANGED <<raceVars, waitVars, partVars, sshVars>>
    \/ TeardownAttemptEnd /\ UNCHANGED <<raceVars, waitVars, partVars, sshVars>>
    \/ TeardownGiveUp /\ UNCHANGED <<raceVars, waitVars, partVars, sshVars>>

SpecMain == InitMain /\ [][NextMain]_vars

InitWait == RaceIdle /\ WaitForInit /\ PartIdle /\ SshIdle /\ LaunchIdle /\ DestroyIdle

WaitStep == WaitForRound /\ UNCHANGED <<raceVars, partVars, sshVars, launchVars, destroyVars>>

NextWait ==
    \/ \E id \in DOMAIN instances : ProviderMoves(id) /\ UNCHANGED <<raceVars, partVars, sshVars, launchVars, destroyVars>>
    \/ \E id \in DOMAIN instances : ShellChanges(id) /\ UNCHANGED <<raceVars, partVars, sshVars, launchVars, destroyVars>>
    \/ WaitStep

SpecWait == InitWait /\ [][NextWait]_vars

\* the loop has no blocking step but a bounded sleep, an update and probes with
\* a connect timeout: a round that can be made is made in the end
SpecWaitFair == SpecWait /\ WF_vars(WaitStep)

InitRace == WaitIdle /\ action = "launch" /\ RunIdle /\ RaceInit /\ ProgIdle /\ PartIdle /\ SshIdle /\ DestroyIdle

NextRace ==
    \/ \E p \in RaceProcs, name \in GroupNames : RaceLookup(p, name) /\ UNCHANGED <<progVars, waitVars, runVars, partVars, sshVars, destroyVars>>
    \/ \E p \in RaceProcs, name \in GroupNames : RaceCreate(p, name) /\ UNCHANGED <<progVars, waitVars, runVars, partVars, sshVars, destroyVars>>
    \/ \E p \in RaceProcs, name \in GroupNames : RaceAuthorize(p, name) /\ UNCHANGED <<progVars, waitVars, runVars, partVars, sshVars, destroyVars>>
    \/ \E p \in RaceProcs : RaceCheckExisting(p) /\ UNCHANGED <<progVars, waitVars, runVars, partVars, sshVars, destroyVars>>
    \/ \E p \in RaceProcs : RaceRunSubordinates(p) /\ UNCHANGED <<progVars, waitVars, runVars, partVars, sshVars, destroyVars>>
    \/ \E p \in RaceProcs : RaceRunMain(p) /\ UNCHANGED <<progVars, waitVars, runVars, partVars, sshVars, destroyVars>>
    \/ \E p \in RaceProcs : RaceTag(p) /\ UNCHANGED <<progVars, waitVars, runVars, partVars, sshVars, destroyVars>>

SpecRace == InitRace /\ [][NextRace]_vars

\* ---- claims ---------------------------------------------------------------

\* the positions in the call log of the calls of an operation
CallsOf(ops) == {k \in DOMAIN calls : calls[k].op \in ops}

\* C1: once get_partition has been called for every zone index 0..numZones-1,
\* the counts sum to exactly total and differ by at most 1.
C1_PartitionSumAndSpread ==
    current_partitions = num_partitions =>
        /\ Len(counts) = num_partitions
        /\ SeqSum(counts) = total
        /\ SeqMax(counts) - SeqMin(counts) <= 1

\* a finished partition with a remainder: some zone got the extra worker
C1_Witness ==
    /\ current_partitions = num_partitions
    /\ num_partitions = 3
    /\ total = 5
    /\ counts = <<2, 2, 1>>

\* C5 (as claimed): ssh makes at most 6 attempts, and a command that failed
\* on all of its first 6 attempts has raised an error after the 6th failure.
C5_AtMostSixAttempts ==
    /\ Len(statuses) <= 6
    /\ (Len(statuses) = 6 /\ statuses[6] # 0) => ssh_result \in {"UsageError", "CalledProcessError"}

\* C6: an error is raised only when the retries are exhausted (tries > 5 at
\* the failed attempt), and its kind is decided by the exit status of the last
\* failed attempt alone: 255 gives UsageError, any other non-zero status gives
\* the CalledProcessError carrying that status.
C6_ErrorFromLastStatus ==
    LET last == statuses[Len(statuses)] IN
    /\ ssh_result \in {"UsageError", "CalledProcessError"} =>
        /\ tries > SshMaxTries
        /\ last # 0
        /\ raised_code = last
        /\ (ssh_result = "UsageError") <=> (last = SshAuthStatus)
    /\ (ssh_result = "running" /\ statuses # <<>>) => Len(statuses) = tries

\* the call gave up with the authentication status last, after earlier
\* attempts had failed with another status
C6_Witness ==
    /\ ssh_result = "UsageError"
    /\ statuses[1] = 1
    /\ statuses[Len(statuses)] = SshAuthStatus

\* C7: whatever the provider lists, every instance get_existing_cluster returns,
\* as main or as subordinate, is in one of the states pending, running, stopping,
\* stopped: never terminated or shutting-down, whatever groups it is in.
C7_LocatorReturnsOnlyActive ==
    pc = "located" =>
        \A id \in main_nodes \cup subordinate_nodes :
            /\ instances[id].state \in {"pending", "running", "stopping", "stopped"}
            /\ instances[id].state \notin {"terminated", "shutting-down"}

\* the locator returned a stopped main while a terminated member of the
\* subordinates group was listed and left out
C7_Witness ==
    /\ pc = "located"
    /\ \E id \in main_nodes : instances[id].state = "stopped"
    /\ \E id \in DOMAIN instances :
        /\ instances[id].state = "terminated"
        /\ instances[id].groups = {"subordinates"}
        /\ id \notin subordinate_nodes

\* C8: two successive get_or_make_group calls with the same name return the
\* same group (same identity, same rules), the second one creates nothing, and
\* the provider's group is after it what the first call returned; and a group
\* of a name is created only while none of that name exists: between a call
\* that found or created the name and a later creation of it lies a deletion.
C8_EnsureGroupIdempotent ==
    LET ensure == {"create_security_group", "get_security_group"} IN
    /\ \A k \in 1..(Len(calls) - 1) :
        (/\ calls[k].op \in ensure
         /\ calls[k + 1].op \in ensure
         /\ calls[k].group = calls[k + 1].group)
        => /\ calls[k + 1].op = "get_security_group"
           /\ calls[k + 1].id = calls[k].id
           /\ calls[k + 1].rules = calls[k].rules
    /\ \A k, l \in 1..Len(calls) :
        (/\ k < l
         /\ calls[k].op \in ensure
         /\ calls[l].op = "create_security_group"
         /\ calls[k].group = calls[l].group)
        => \E m \in (k + 1)..(l - 1) :
            calls[m].op = "delete_security_group" /\ calls[m].group = calls[k].group
    /\ (Len(calls) > 0 /\ calls[Len(calls)].op \in ensure)
        => LET c == calls[Len(calls)] IN
           /\ c.group \in DOMAIN security_groups
           /\ security_groups[c.group] = [id |-> c.id, rules |-> c.rules]

\* the main group was absent, the first call created it and the next call
\* returned the same group
C8_Witness ==
    /\ Len(calls) >= 2
    /\ calls[1].op = "create_security_group" /\ calls[1].group = "main"
    /\ calls[2].op = "get_security_group" /\ calls[2].group = "main"
    /\ calls[2].id = calls[1].id

\* C2: when the locator of a launch finds an active subordinate, or an active
\* main while use_existing_main is not set, the launch ends with exit status 1
\* and has issued no run request and no spot request.
C2_OccupiedLaunchRefused ==
    (existing_subordinates # {} \/ (existing_mains # {} /\ ~opts.use_existing_main))
    => /\ pc = "exit"
       /\ exit_code = 1
       /\ CallsOf({"run_instances", "request_spot_instances"}) = {}

\* a spot launch refused because an active subordinate was found, although
\* use_existing_main was set
C2_Witness ==
    /\ pc = "exit"
    /\ exit_code = 1
    /\ opts.spot
    /\ opts.use_existing_main
    /\ existing_subordinates # {}
    /\ existing_mains = {}

C4_InterruptCancelsAll ==
    LET cancels == CallsOf({"cancel_spot_instance_requests"})
        submitted == UNION {calls[k].ids : k \in CallsOf({"request_spot_instances"})}
        cancelled == pc = "spot_requery" \/ (pc = "exit" /\ exit_code = 0)
    IN
    /\ cancelled =>
        /\ Cardinality(cancels) = 1
        /\ \A k \in cancels : calls[k].ids = submitted /\ calls[k].ids = DOMAIN spot_requests
        /\ \A r \in DOMAIN spot_requests : spot_requests[r].state = "cancelled"
    /\ (pc = "exit" /\ exit_code = 0) =>
        /\ \E k \in cancels : \E l \in CallsOf({"get_all_instances"}) : k < l
        /\ warned <=> \E id \in DOMAIN instances :
                /\ instances[id].state \in {"pending", "running", "stopping", "stopped"}
                /\ instances[id].groups \cap GroupNames # {}
    /\ ~cancelled => cancels = {}

\* interrupted after two polls in which no request was active: the three
\* requests were cancelled, nothing was found running and nothing was warned
C4_Witness ==
    /\ pc = "exit"
    /\ exit_code = 0
    /\ observed = <<0, 0>>
    /\ Cardinality(my_req_ids) = 3
    /\ \A r \in my_req_ids : spot_requests[r] = [state |-> "cancelled", instance_id |-> 0]
    /\ main_nodes \cup subordinate_nodes = {}
    /\ ~warned

\* C9: a group that had at least one rule when launch looked it up gets no
\* authorize call, and its rules at the provider stay the ones it had.
C9_GroupWithRulesUntouched ==
    \A g \in {main_group, subordinate_group} :
        (g # NoGroup /\ g.rules # {})
        => /\ \A k \in CallsOf({"authorize"}) : calls[k].group # g.name
           /\ security_groups[g.name].rules = g.rules

\* past the default-rule step: the main group had a rule of its own and none
\* of the defaults and was left alone, the subordinates group was empty and
\* got the defaults
C9_Witness ==
    /\ pc = "check_existing"
    /\ main_group.rules = CustomRules
    /\ security_groups["main"].rules = CustomRules
    /\ subordinate_group.rules = {}
    /\ security_groups["subordinates"].rules = Range(subordinate_default_rules)

\* C10: in every teardown attempt the revoke calls for all rules of all listed
\* groups come before the first delete call: no revoke follows a delete within
\* an attempt, and once a delete has been attempted, a revoke call was issued in
\* that attempt for every rule of every listed group, so that every rule still
\* naming a target group at the provider is one whose revocation was requested.
C10_RevokesBeforeDeletes ==
    LET lists == CallsOf({"get_all_security_groups"})
        start == IF lists = {} THEN 0 ELSE CHOOSE m \in lists : \A k \in lists : k <= m
        revs == {k \in CallsOf({"revoke"}) : k > start}
        dels == {k \in CallsOf({"delete_security_group"}) : k > start}
    IN
    /\ \A k \in CallsOf({"delete_security_group"}) : \A l \in CallsOf({"revoke"}) :
        k < l => \E m \in lists : k < m /\ m < l
    /\ dels # {} =>
        /\ \A i \in DOMAIN groups : \A j \in DOMAIN groups[i].rules :
            \E k \in revs : calls[k].group = groups[i].name
                             /\ calls[k].rules = {groups[i].rules[j]}
        /\ \A g \in DOMAIN security_groups \cap GroupNames :
            \A r \in security_groups[g].rules :
                r.src \in GroupNames \ {g}
                => \E k \in revs : calls[k].group = g /\ calls[k].rules = {r}

\* the two groups named each other (and the main group itself); in the first
\* attempt all four rules were revoked, then one group was deleted and the
\* deletion of the other is still to come
C10_Witness ==
    /\ pc = "teardown_work"
    /\ attempt = 1
    /\ Len(groups) = 2
    /\ \A i \in DOMAIN groups :
        /\ Len(groups[i].rules) = 2
        /\ \E j \in DOMAIN groups[i].rules :
            groups[i].rules[j].src \in GroupNames \ {groups[i].name}
    /\ Cardinality(CallsOf({"revoke"})) = 4
    /\ Cardinality(CallsOf({"delete_security_group"})) = 1
    /\ Cardinality(DOMAIN security_groups) = 1
    /\ Len(work) = 1

\* the revoke and delete calls of the current attempt, made or still to make:
\* those after the last listing of the groups, and those of the work left
AttemptCalls ==
    LET listings == CallsOf({"get_all_security_groups"})
        made == {k \in DOMAIN calls : \A j \in listings : j < k}
    IN {calls[k] : k \in made} \cup Range(work)

\* a step of the group deletion adds no group and no rule
TeardownOnlyRemoves ==
    pc \in {"teardown", "teardown_work"} =>
        /\ DOMAIN security_groups' \subseteq DOMAIN security_groups
        /\ \A g \in DOMAIN security_groups' :
                security_groups'[g].rules \subseteq security_groups[g].rules

\* every group of the cluster that exists, and every rule it has, has its
\* delete or revoke call in the current attempt
AttemptCoversAll ==
    LET ac == AttemptCalls IN
    \A g \in DOMAIN security_groups \cap GroupNames :
        /\ GroupCall("delete_security_group", g, security_groups[g].id, {}) \in ac
        /\ \A r \in security_groups[g].rules :
            GroupCall("revoke", g, security_groups[g].id, {r}) \in ac

\* C11: the group deletion of a destroy makes at most 3 attempts (one listing
\* of the groups each); every attempt revokes every rule the cluster's groups
\* still have and deletes every group that still exists, so what failed before
\* is tried again; when the attempts are used up and a group of the cluster
\* still exists, the failure is printed; and no step of the deletion adds a
\* rule or a group.
C11_TeardownBoundedAndRetried ==
    /\ [](Cardinality(CallsOf({"get_all_security_groups"})) <= TeardownAttempts)
    /\ [](pc = "teardown_work" => AttemptCoversAll)
    /\ []((pc = "done" /\ response = "y" /\ opts.delete_groups
            /\ DOMAIN security_groups \cap GroupNames # {}) => reported)
    /\ [][TeardownOnlyRemoves]_vars

\* the third attempt has failed to delete a group whose deletion and whose
\* rule's revoke were tried in every attempt, and the failure was printed
C11_Witness ==
    /\ pc = "done"
    /\ reported
    /\ "main" \in DOMAIN security_groups
    /\ Cardinality({k \in CallsOf({"delete_security_group"}) : calls[k].group = "main"})
            = TeardownAttempts
    /\ Cardinality({k \in CallsOf({"revoke"}) :
                        calls[k].group = "main" /\ calls[k].rules = {GroupRule("subordinates")}})
            = TeardownAttempts

\* the run requests for subordinates placed in zone z
SubordinateRunsIn(z) ==
    {k \in CallsOf({"run_instances"}) : calls[k].group = "subordinates" /\ calls[k].zone = z}

\* C12: when the on-demand loop of a launch has gone through the zones, each
\* zone whose partition count is non-zero has exactly one run request, for
\* exactly that count of instances, each zone whose count is zero has none,
\* no spot request was made, and the subordinates collected are exactly as
\* many as requested.
C12_OneRunRequestPerNonEmptyZone ==
    (~opts.spot /\ pc \in {"launch_mains", "tag", "launched"}) =>
        /\ \A z \in 0..(opts.num_zones - 1) :
            LET n == get_partition(opts.subordinates, opts.num_zones, z) IN
            /\ n > 0 => /\ Cardinality(SubordinateRunsIn(z)) = 1
                        /\ \A k \in SubordinateRunsIn(z) :
                            calls[k].count = n /\ Cardinality(calls[k].ids) = n
            /\ n = 0 => SubordinateRunsIn(z) = {}
        /\ \A k \in CallsOf({"run_instances"}) :
            calls[k].group = "subordinates" => calls[k].zone \in 0..(opts.num_zones - 1)
        /\ CallsOf({"request_spot_instances"}) = {}
        /\ Cardinality(subordinate_nodes) = opts.subordinates

\* three subordinates over two zones: a request for two, then a request for one
C12_Witness ==
    /\ ~opts.spot /\ opts.subordinates = 3 /\ opts.num_zones = 2
    /\ pc = "launched"
    /\ \E j, k \in CallsOf({"run_instances"}) :
        /\ j < k
        /\ calls[j].group = "subordinates" /\ calls[j].zone = 0 /\ calls[j].count = 2
        /\ calls[k].group = "subordinates" /\ calls[k].zone = 1 /\ calls[k].count = 1
    /\ Cardinality(subordinate_nodes) = 3

\* C13: in a launch, a resume and a start, setup_cluster is entered only when
\* a round of wait_for_cluster_state has found every main and every
\* subordinate running with its remote shell answering, and until then the
\* action has run no remote command.
C13_SetupOnlyAfterSshReady ==
    action \in {"launch", "resume", "start"} =>
        /\ (pc = "setup" \/ CallsOf({"setup_cluster"}) # {}) =>
                /\ main_nodes # {}
                /\ seen = main_nodes \cup subordinate_nodes
        /\ pc \notin {"setup", "done", "exit"} => CallsOf({"setup_cluster", "ssh"}) = {}

\* a start of a main and a subordinate: a round of the wait failed, a later one
\* found both ready, and setup_cluster has run
C13_Witness ==
    /\ action = "start"
    /\ pc = "done"
    /\ rounds > 0
    /\ Cardinality(main_nodes) = 1 /\ Cardinality(subordinate_nodes) = 1
    /\ seen = main_nodes \cup subordinate_nodes
    /\ CallsOf({"setup_cluster"}) # {}

\* the provider calls that change an instance, a rule or a group
MutatingOps ==
    {"terminate_instances", "stop_instances", "reboot_instances", "start_instances",
     "run_instances", "request_spot_instances", "cancel_spot_instance_requests",
     "revoke", "delete_security_group", "authorize", "create_security_group", "add_tag"}

\* C14: when the prompt of destroy, stop or reboot-subordinates is answered
\* with anything but "y", the action makes no provider call that changes
\* anything and the process ends with exit status 0.
C14_DeclinedChangesNothing ==
    (action \in {"destroy", "stop", "reboot-subordinates"} /\ response \notin {"", "y"}) =>
        /\ CallsOf(MutatingOps) = {}
        /\ pc = "done"
        /\ exit_code = 0

\* a destroy of a cluster with a main and a subordinate was declined
C14_Witness ==
    /\ action = "destroy"
    /\ response = "n"
    /\ main_nodes # {} /\ subordinate_nodes # {}
    /\ opts.delete_groups
    /\ pc = "done"

\* C15: an action that ends in a failure (the process was ended by sys.exit
\* on an error path, or the group deletion gave up with groups left) has a
\* non-zero exit status.
C15_FailureExitsNonZero ==
    (pc = "exit" \/ (pc = "done" /\ reported)) => exit_code \notin {-1, 0}

\* the calls of the operations `ops` made on instance id
CallsOn(ops, id) == {k \in CallsOf(ops) : id \in calls[k].ids}

\* C16: when a confirmed stop has ended, every located main has a stop call,
\* every located subordinate that came from a spot request has a terminate
\* call and no stop call, and every other located subordinate has a stop call
\* and no terminate call.
C16_StopTerminatesSpotSubordinates ==
    (action = "stop" /\ response = "y" /\ pc = "done") =>
        /\ \A id \in main_nodes : CallsOn({"stop_instances"}, id) # {}
        /\ \A id \in subordinate_nodes :
            IF instances[id].spot
            THEN /\ CallsOn({"terminate_instances"}, id) # {}
                 /\ CallsOn({"stop_instances"}, id) = {}
            ELSE /\ CallsOn({"stop_instances"}, id) # {}
                 /\ CallsOn({"terminate_instances"}, id) = {}

\* a stop of a main and a spot-requested subordinate: one stopped, one terminated
C16_Witness ==
    /\ action = "stop" /\ response = "y" /\ pc = "done"
    /\ main_nodes # {}
    /\ \E id \in subordinate_nodes :
        /\ instances[id].spot
        /\ instances[id].state = "shutting-down"
        /\ CallsOn({"terminate_instances"}, id) # {}

\* the provider calls made on instances
InstanceOps ==
    {"terminate_instances", "stop_instances", "reboot_instances", "start_instances", "add_tag"}

\* a step leaves every instance of the main group as it is
MainsUntouched ==
    action = "reboot-subordinates" =>
        \A id \in DOMAIN instances :
            "main" \in instances[id].groups => instances'[id] = instances[id]

\* C19: a confirmed reboot-subordinates makes a reboot call for every located
\* subordinate, makes no call on an instance of the main group, and leaves the
\* state of every such instance unchanged.
C19_RebootLeavesMainsAlone ==
    /\ []((action = "reboot-subordinates" /\ response = "y" /\ pc = "done") =>
            \A id \in subordinate_nodes : CallsOn({"reboot_instances"}, id) # {})
    /\ [](action = "reboot-subordinates" =>
            \A id \in DOMAIN instances :
                "main" \in instances[id].groups => CallsOn(InstanceOps, id) = {})
    /\ [][MainsUntouched]_vars

\* a confirmed reboot of a cluster of a running main and a running subordinate
C19_Witness ==
    /\ action = "reboot-subordinates" /\ response = "y" /\ pc = "done"
    /\ \E id \in main_nodes : instances[id].state = "running"
    /\ \E id \in subordinate_nodes :
        instances[id].state = "running" /\ CallsOn({"reboot_instances"}, id) # {}

\* C20: when the locator is called with die_on_error and finds no active main,
\* the process exits with status 1 and the action has made no start call, no
\* wait, no remote command and no setup, whether or not active subordinates
\* exist; called without die_on_error, the locator returns what it found, be
\* it nothing, and the action goes on.
C20_NoMainFailsBeforeAnyStep ==
    /\ (die_on_error /\ pc \notin {"args", "locate"} /\ main_nodes = {}) =>
            /\ action \in {"resume", "start", "login", "get-main"}
            /\ pc = "exit"
            /\ exit_code = 1
            /\ calls = <<>>
            /\ rounds = 0 /\ seen = {} /\ ssh_up = {}
    /\ (~die_on_error /\ pc = "located") =>
            /\ exit_code = -1
            /\ main_nodes = get_existing_cluster(instances).main_nodes
            /\ subordinate_nodes = get_existing_cluster(instances).subordinate_nodes

\* a start of a cluster that has an active subordinate and no active main
C20_Witness ==
    /\ action = "start"
    /\ pc = "exit"
    /\ exit_code = 1
    /\ get_existing_cluster(instances).main_nodes = {}
    /\ get_existing_cluster(instances).subordinate_nodes # {}

\* C17: in a confirmed destroy that deletes the groups, the groups are listed,
\* and a rule revoked or a group deleted, only after a round of
\* wait_for_cluster_state has found every located main and subordinate
\* terminated.
C17_TeardownAfterAllTerminated ==
    (pc \in {"teardown", "teardown_work"}
        \/ CallsOf({"get_all_security_groups", "revoke", "delete_security_group"}) # {}) =>
        /\ seen = main_nodes \cup subordinate_nodes
        /\ \A id \in main_nodes \cup subordinate_nodes : instances[id].state = "terminated"

\* the located instance was seen terminated and a rule has been revoked
C17_Witness ==
    /\ main_nodes \cup subordinate_nodes # {}
    /\ seen = main_nodes \cup subordinate_nodes
    /\ CallsOf({"revoke"}) # {}

\* a step of a destroy without group deletion leaves the groups as they are
GroupsKept == ~opts.delete_groups => security_groups' = security_groups

\* C18: a confirmed destroy makes a terminate call for every main and every
\* subordinate the locator returned; it revokes rules and deletes groups only
\* if opts.delete_groups is set, and otherwise leaves the groups and their
\* rules as they were.
C18_DestroyTerminatesAllKeepsGroups ==
    /\ [](pc \in {"confirm", "terminate"} =>
            /\ main_nodes = get_existing_cluster(instances).main_nodes
            /\ subordinate_nodes = get_existing_cluster(instances).subordinate_nodes)
    /\ []((response = "y" /\ pc \notin {"destroy", "confirm", "terminate"}) =>
            \A id \in main_nodes \cup subordinate_nodes :
                CallsOn({"terminate_instances"}, id) # {})
    /\ [](~opts.delete_groups =>
            CallsOf({"get_all_security_groups", "revoke", "delete_security_group"}) = {})
    /\ [][GroupsKept]_vars

\* a confirmed destroy without group deletion has ended: the instance found
\* was told to terminate and both groups are still there with their rules
C18_Witness ==
    /\ response = "y" /\ ~opts.delete_groups /\ pc = "done"
    /\ \E id \in main_nodes \cup subordinate_nodes :
        /\ instances[id].state = "shutting-down"
        /\ CallsOn({"terminate_instances"}, id) # {}
    /\ DOMAIN security_groups = GroupNames
    /\ \A g \in GroupNames : security_groups[g].rules # {}

\* the calls a launch makes to set up the groups, and the locator's listing
GroupSetupOps == {"create_security_group", "get_security_group", "authorize"}

C22_OnlyCreatedGroupsGetRules ==
    \A k \in CallsOf({"authorize"}) :
        \E j \in CallsOf({"create_security_group"}) : calls[j].group = calls[k].group

\* C23: a launch submits spot requests only for zones whose partition count is
\* non-zero: no request_spot_instances call has count 0, and once all zones
\* are gone through the counts of the calls sum to the requested subordinates.
C23_NoEmptySpotRequest ==
    /\ \A k \in CallsOf({"request_spot_instances"}) : calls[k].count > 0
    /\ (opts.spot /\ pc \in {"spot_poll", "launch_mains", "tag", "launched"}) =>
            Cardinality(my_req_ids) = opts.subordinates

\* the active instances among those listed
ActiveListed ==
    {id \in DOMAIN instances :
        instances[id].state \in {"pending", "running", "stopping", "stopped"}}

\* C24 as stated: the locator returns an active instance as main iff it is in
\* the main group and not in the subordinates group, as subordinate iff it is
\* in the subordinates group and not in the main group; an instance in both
\* groups or in neither is in neither list.
C24_RoleOnlyInExactlyOneGroup ==
    pc = "located" =>
        /\ main_nodes = {id \in ActiveListed :
                            /\ "main" \in instances[id].groups
                            /\ "subordinates" \notin instances[id].groups}
        /\ subordinate_nodes = {id \in ActiveListed :
                                    /\ "subordinates" \in instances[id].groups
                                    /\ "main" \notin instances[id].groups}

\* C24, amended: the locator returns an active instance as main iff it is in
\* the main group, be it in the subordinates group too or not, and as
\* subordinate iff it is in the subordinates group and not in the main group;
\* an instance in neither group is in neither list, and none is in both lists.
C24_MainGroupTakesPrecedence ==
    pc = "located" =>
        /\ main_nodes = {id \in ActiveListed : "main" \in instances[id].groups}
        /\ subordinate_nodes = {id \in ActiveListed :
                                    /\ "subordinates" \in instances[id].groups
                                    /\ "main" \notin instances[id].groups}
        /\ main_nodes \cap subordinate_nodes = {}
        /\ \A id \in DOMAIN instances :
            instances[id].groups \cap GroupNames = {} =>
                id \notin main_nodes \cup subordinate_nodes

\* the locator has returned an active instance that is in both groups as a
\* main, next to one that is in neither group
C24_Witness ==
    /\ pc = "located"
    /\ \E id \in main_nodes : GroupNames \subseteq instances[id].groups
    /\ \E id \in ActiveListed : instances[id].groups \cap GroupNames = {}

\* ---- C25 ----
\* C25: wait_for_cluster_state returns only at the end of a round in which,
\* after the refresh of every instance, all instances were in the state waited
\* for (for ssh-ready: all running and every probe answered); the first round
\* follows no sleep and the round after the k-th failed one follows a sleep of
\* 3 * k seconds; while the condition fails the loop goes on, whatever the
\* number of failed rounds.
C25_ReturnsOnlyWhenAllSatisfy ==
    LET nodes == main_nodes \cup subordinate_nodes IN
    /\ pc = "returned" =>
         /\ DOMAIN view = nodes
         /\ seen = nodes
         /\ IF wanted_state = "ssh-ready"
            THEN /\ \A id \in nodes : view[id].state = "running"
                 /\ probes = SeqOfSet(nodes)
            ELSE \A id \in nodes : view[id].state = wanted_state
    /\ \A k \in DOMAIN sleeps : sleeps[k] = 3 * (k - 1)
    /\ (pc = "wait" /\ rounds < MaxWaitRounds) => Len(sleeps) = rounds
    /\ pc = "returned" => Len(sleeps) >= 1
    /\ (pc = "wait" /\ rounds > 0) => seen # nodes

C25_Witness ==
    /\ pc = "returned"
    /\ wanted_state = "ssh-ready"
    /\ Cardinality(subordinate_nodes) = 2
    /\ rounds = 2
    /\ sleeps = <<0, 3, 6>>

\* ---- C26 ----
\* C26: in every round of a wait for ssh-ready, the instances probed all had
\* the refreshed state 'running'; a wait for another state probes nothing.
C26_ProbesOnlyRunning ==
    /\ \A id \in Range(probes) : id \in DOMAIN view /\ view[id].state = "running"
    /\ wanted_state # "ssh-ready" => probes = <<>>

C26_Witness ==
    /\ wanted_state = "ssh-ready"
    /\ pc = "wait"
    /\ rounds = 2
    /\ probes = <<1>>
    /\ Cardinality(subordinate_nodes) = 2

\* ---- C27 ----
Satisfies(id) ==
    IF wanted_state = "ssh-ready" THEN instances[id].state = "running" /\ id \in ssh_up
                                  ELSE instances[id].state = wanted_state

AllSatisfy == \A id \in main_nodes \cup subordinate_nodes : Satisfies(id)

\* C27: with the rounds of the loop scheduled fairly, if from some point on
\* every instance is for ever in the state waited for, the wait returns in the
\* end; if some instance of the set is never in it, the wait never returns.
C27_ReturnsIffSatisfied ==
    /\ (<>[]AllSatisfy) => <>(pc = "returned")
    /\ \A id \in 1..MaxWaitListed :
         ([](id \in subordinate_nodes /\ ~Satisfies(id))) => [](pc # "returned")

C27_Witness ==
    /\ pc = "returned"
    /\ wanted_state = "terminated"
    /\ Cardinality(subordinate_nodes) = 2
    /\ rounds = MaxWaitRounds
    /\ Len(sleeps) = MaxWaitRounds + 1

\* ---- C28 ----
\* C28 (as claimed): ssh_write makes at most 6 attempts, each of which sends
\* the whole input; it returns at the first attempt that exits with status 0,
\* and after 6 attempts that all exited non-zero it has raised an error.
C28_WriteAtMostSixAttempts ==
    /\ Len(statuses) <= 6
    /\ written = [k \in DOMAIN statuses |-> arguments]
    /\ ssh_result = "returned" <=> (statuses # <<>> /\ statuses[Len(statuses)] = 0)
    /\ \A k \in DOMAIN statuses : statuses[k] = 0 => k = Len(statuses)
    /\ (Len(statuses) = 6 /\ statuses[6] # 0) => ssh_result = "RuntimeError"

\* ---- C29 ----
StartCallsOf(group) == {k \in CallsOf({"start_instances"}) : calls[k].group = group}

\* C29: in a start, every start call on a subordinate comes before the first
\* start call on a main; when the wait for ssh-ready is entered every main and
\* every subordinate located has had its start call and none follows; and the
\* handoff that comes after the wait runs no key_setup command, reads no key
\* and sends no input to any subordinate.
C29_StartOrderAndNoKey ==
    action = "start" =>
        /\ \A k \in StartCallsOf("subordinates") : \A j \in StartCallsOf("main") : k < j
        /\ pc \in {"wait_ssh", "setup", "done"} =>
             /\ \A id \in main_nodes : \E k \in StartCallsOf("main") : calls[k].ids = {id}
             /\ \A id \in subordinate_nodes :
                  \E k \in StartCallsOf("subordinates") : calls[k].ids = {id}
             /\ Cardinality(CallsOf({"start_instances"})) =
                  Cardinality(main_nodes \cup subordinate_nodes)
        /\ \A k \in CallsOf({"setup_cluster"}) : \A j \in CallsOf({"start_instances"}) : j < k
        /\ CallsOf({"setup_cluster"}) # {} => seen = main_nodes \cup subordinate_nodes
        /\ pc = "done" => CallsOf({"setup_cluster"}) # {}
        /\ CallsOf({"key_setup", "ssh_read", "ssh_write"}) = {}

\* a start of one main and one subordinate that went through to the end
C29_Witness ==
    /\ action = "start"
    /\ pc = "done"
    /\ exit_code = 0
    /\ Cardinality(StartCallsOf("subordinates")) = 1
    /\ Cardinality(StartCallsOf("main")) = 1
    /\ CallsOf({"setup_cluster"}) # {}

\* ---- C30 ----
MainErrors == CallsOf({"run_instances_error", "start_instances_error"})

\* C30: when, in a launch, the call that runs or starts the main is answered
\* with an error after the subordinates were run, the process ends there: the
\* failed call is its last, it has made no terminate, stop or reboot call,
\* named no instance, entered no wait and run no remote command, and every
\* subordinate it ran is still there, pending, in the subordinates' group.
C30_FailedMainLeavesSubordinates ==
    MainErrors # {} =>
        /\ action = "launch"
        /\ pc = "raised"
        /\ exit_code = 1
        /\ MainErrors = {Len(calls)}
        /\ CallsOf({"terminate_instances", "stop_instances", "reboot_instances", "add_tag",
                    "setup_cluster", "key_setup", "ssh_read", "ssh_write", "ssh"}) = {}
        /\ rounds = 0 /\ seen = {} /\ ssh_up = {}
        /\ \E k \in CallsOf({"run_instances"}) :
             /\ calls[k].group = "subordinates"
             /\ Cardinality(calls[k].ids) = opts.subordinates
        /\ \A k \in CallsOf({"run_instances"}) : \A id \in calls[k].ids :
             /\ id \in DOMAIN instances
             /\ instances[id].state = "pending"
             /\ instances[id].groups = {"subordinates"}

\* a subordinate was run and the call for the main failed
C30_Witness ==
    /\ pc = "raised"
    /\ MainErrors # {}
    /\ opts.subordinates = MaxRunWorkers
    /\ \E k \in CallsOf({"run_instances"}) :
         /\ Cardinality(calls[k].ids) = MaxRunWorkers
         /\ \A id \in calls[k].ids : instances[id].state = "pending"

\* ---- C31 ----
\* the active instances in the cluster's subordinates group
ActiveWorkers ==
    {id \in DOMAIN instances : is_active(instances[id]) /\ "subordinates" \in instances[id].groups}

\* the invocations that have run their subordinates
RaceAcquired == {p \in RaceProcs : procs[p].subordinate_nodes # {}}

\* C31: nothing orders two launches of one cluster name: each creates a group
\* only after its own lookup saw it absent, each passes the occupancy test on
\* its own listing alone, whatever the other has begun, and each that passed
\* runs all the subordinates it was asked for, so the subordinates group holds
\* the subordinates of every invocation that got that far.
C31_EachLaunchGoesByItsOwnListing ==
    /\ \A p \in RaceProcs :
         /\ procs[p].created \subseteq procs[p].saw_absent
         /\ procs[p].pc \in {"run_subordinates", "run_main", "tag", "launched"} =>
              procs[p].existing_subordinates = {} /\ procs[p].existing_mains = {}
         /\ procs[p].pc = "exit" =>
              procs[p].existing_subordinates # {} \/ procs[p].existing_mains # {}
         /\ Cardinality(procs[p].subordinate_nodes) \in {0, opts.subordinates}
         /\ procs[p].subordinate_nodes \subseteq ActiveWorkers
    /\ procs[1].subordinate_nodes \cap procs[2].subordinate_nodes = {}
    /\ Cardinality(ActiveWorkers) = opts.subordinates * Cardinality(RaceAcquired)

\* both invocations saw a group absent and created it, both passed the
\* occupancy test and ran their subordinates: the group holds twice what one
\* launch asked for
C31_Witness ==
    /\ RaceAcquired = RaceProcs
    /\ \A p \in RaceProcs : procs[p].saw_absent # {} /\ procs[p].created # {}
    /\ \A p \in RaceProcs : procs[p].pc = "launched"
    /\ Cardinality(ActiveWorkers) = 2 * opts.subordinates
    /\ Cardinality(ActiveWorkers) > opts.subordinates

\* ---- C32 ----
\* C32 (as claimed): when a launch on the spot path has ended without its
\* subordinates, after it had submitted a request, a cancel call has named
\* every request it submitted and none of them is left open.
C32_FailedSpotCancelsAll ==
    LET submitted == UNION {calls[k].ids : k \in CallsOf({"request_spot_instances"})}
        failed == \/ pc = "exit"
                  \/ pc = "raised" /\ CallsOf({"request_spot_instances_error"}) # {}
    IN
    (opts.spot /\ submitted # {} /\ failed) =>
        /\ \E k \in CallsOf({"cancel_spot_instance_requests"}) : submitted \subseteq calls[k].ids
        /\ \A r \in submitted : spot_requests[r].state # "open"

\* ---- C33 ----
\* the teardown of the groups has run and the destroy action is over
TeardownOver ==
    /\ action = "destroy"
    /\ pc = "done"
    /\ CallsOf({"get_all_security_groups"}) # {}

\* C33 (as claimed): when the teardown of the groups is over, the failure has
\* been printed if and only if one of the cluster's two groups still exists.
C33_ReportMatchesGroups ==
    TeardownOver => (reported <=> (DOMAIN security_groups \cap GroupNames # {}))

\* the half of C33 that the code keeps: no group is left without the failure
\* being printed
C33_NotSilentWhenGroupRemains ==
    (TeardownOver /\ DOMAIN security_groups \cap GroupNames # {}) => reported

====
